---------------------------- MODULE Spec2Model ----------------------------
(***************************************************************************)
(* A model of the Syntari desktop backend kernel (src-tauri/src):          *)
(*   - the PTY multiplexer          terminal/commands.rs                   *)
(*   - the state kernel             core/state.rs, core/state_collections.rs*)
(*   - the chat commands            chat/commands.rs, chat/types.rs        *)
(*   - the filesystem watcher       filesystem/watcher.rs                  *)
(* Each subsystem has its own next-state relation and specification over   *)
(* the shared variables; the other subsystems' variables stay unchanged.   *)
(***************************************************************************)
EXTENDS Integers, Sequences, FiniteSets, TLC

(***************************************************************************)
(* Bounds of the model.                                                    *)
(***************************************************************************)
\* number of PTY sessions ever created (uuids are never reused)
MaxSessions == 2
\* capacity of a session's output channel; the source uses mpsc::channel(1000)
\* (terminal/commands.rs:106), scaled down here
ChannelCapacity == 1
\* number of output pieces the shells produce, all sessions together
MaxOut == 2
\* last value of the wall clock, seconds
MaxTime == 1
\* number of state-kernel calls made in one run
MaxCalls == 3
\* chat sessions created in one run
MaxChats == 2
\* chat messages sent in one run
MaxMsgs == 3
\* watcher commands invoked in one run
MaxWatchCalls == 3
\* changes made to the watched files in one run
MaxChanges == 3
\* file commands called in one behaviour
MaxFileCalls == 3
\* entries of the scanned directory
MaxEntries == 4
\* the largest limit the UI pages with
MaxLimit == 3
\* scan_files_chunked's MAX_FILES_SCAN, 100_000 in scanning.rs line 37, scaled
\* down to the size of the directories above
MAX_FILES_SCAN == 2
\* the most chunks one read_output call is to take, 20, scaled down to the
\* output the shells produce here
CHUNK_CAP == 1
\* AppState calls made in one behaviour
MaxAppCalls == 3
\* files of the searched project
MaxSearchFiles == 2
\* searches made in one behaviour
MaxSearches == 1
\* search_in_content's MAX_MATCHES_PER_FILE, 20 in search.rs line 324, scaled
\* down to the lines of the files searched here
MAX_MATCHES_PER_FILE == 2
\* search_in_project's ceiling on total_matches, 10000 in search.rs line 167,
\* scaled down likewise
MAX_TOTAL_MATCHES == 3
\* search_in_project_streaming's default max_results
DEFAULT_MAX_RESULTS == 1000
\* scan_directory_for_cache's limit on known_files.len(), 10000 in watcher.rs
\* line 258, scaled down to the trees scanned here
KNOWN_FILES_LIMIT == 3
\* scan_directory_for_cache's take(1000), watcher.rs line 263, scaled likewise
ENTRIES_PER_DIR == 2
\* scan_directory_for_cache recurses below this depth, and returns above the other
RECURSE_BELOW_DEPTH == 5
DEPTH_GUARD == 10
\* populating scans started in one behaviour
MaxCacheScans == 2
\* determine_watch_strategy: Full below these counts of files and directories
FullMaxFiles == 1000
FullMaxDirs == 50

Threads == {"t1", "t2"}
SessionIds == 1..MaxSessions
None == "none"

VARIABLES
    \* ---- PTY multiplexer (terminal/commands.rs) ----
    sessions,       \* ids present in TerminalManager.sessions
    sessionsLock,   \* holder of the sessions mutex, or None
    nextId,         \* number of session ids minted so far
    last_activity,  \* per session: value of the last_activity cell
    rxOpen,         \* per session: the channel's receiver has not been dropped
    chan,           \* per session: chunks queued in the bounded channel
    reader,         \* per session: "none" | "running" | "exited"
    readerExit,     \* per session: why the reader thread left its loop
    acc,            \* per session: the reader thread's accumulated_output
    out,            \* pieces of output read from the PTYs so far
    shell,          \* per session: "none" | "alive" | "exited"
    pc,             \* per command task: "idle" | "create_store" | "read_loop"
    cmd,            \* per command task: the call it is in the middle of
    ret,            \* the call that returned last, and what it returned
    racc,           \* per command task: read_output's accumulated_output
    rchunks,        \* per command task: chunks read_output has received in this call
    \* history of the PTY multiplexer
    placed,         \* per session: output pieces the reader put on the channel
    delivered,      \* per session: concatenation of the strings read_output returned
    closedIds,      \* ids for which a close_session call has returned
    \* ---- state kernel (core/state.rs) ----
    ai_providers,   \* AppState.ai_providers: id -> AiProvider
    chat_sessions,  \* AppState.chat_sessions: key -> ChatSession
    stpc,           \* per task: "idle" | "avail_update"
    sttmp,          \* per task: locals of update_ai_provider_availability
    history,        \* the completed state-kernel calls with their results
    \* ---- chat commands (chat/commands.rs) ----
    usedIds,        \* the ids generate_id has handed out
    chpc,           \* per command task: "idle" | "send_lock"
    chcmd,          \* per command task: locals of send_chat_message
    chatRet,        \* the chat command that returned last, and what it returned
    sent,           \* per session key: the messages of the sends that took effect
    \* ---- file-system watcher (filesystem/watcher.rs) ----
    watchers,       \* FileSystemWatcher.watchers: the ids that hold a debouncer
    watched_paths,  \* FileSystemWatcher.watched_paths: id -> root path
    debouncers,     \* the debouncers that are watching, named by their id
    KNOWN_FILES,    \* the paths in the global known-files cache
    files,          \* the files that exist
    pending,        \* debounced events not handled yet
    wpc,            \* the command in progress: "idle" | "populate" | "watch" | "store" | "stop_paths"
    wcmd,           \* the path or id the command in progress was called with
    wret,           \* the watcher command that returned last, and what it returned
    wcalls,         \* watcher commands invoked so far
    wchanges,       \* changes made to the files so far
    wlog,           \* the changes made to the files and the events emitted
    \* ---- path interner (filesystem/service.rs) ----
    interner,       \* FilePathInterner.interner: the strings, a symbol is a position
    reverse_map,    \* FilePathInterner.reverse_map: symbol -> string
    internerLock,   \* the RwLock around interner: its writer and its readers
    reverseLock,    \* the RwLock around reverse_map: its writer and its readers
    ipc,            \* per thread: "idle" | "intern_lock" | "intern_reverse" | "stats_lock" | "stats_reverse"
    icmd,           \* per thread: the string and symbol of the intern_path in progress
    iret,           \* the interner call that returned last, and what it returned
    handles,        \* per string: the symbols intern_path has returned for it
    \* ---- file commands (filesystem/commands, project/commands.rs) ----
    disk,           \* per node of the tree: absent, a directory, or a file's data
    current_project,\* AppState.current_project
    fpc,            \* "idle" | "reread": a smart read stands before its second read
    fcmd,           \* the smart read in progress
    fret,           \* the file command that returned last, and what it returned
    fcalls,         \* number of file commands called so far
    \* ---- chunked scan (filesystem/commands/scanning.rs) ----
    tree,           \* the entries the walker yields for the scanned directory
    spc,            \* the UI's paging: "idle" | "paging" | "done"
    scan_limit,     \* the limit of the paging in progress
    scan_offset,    \* the offset of the next request
    collected,      \* the slices received so far, concatenated
    scanRet,        \* the last request and its result
    cleanRet,       \* the records the last scan_everything_clean returned
    \* project search
    corpus,         \* the files of the project, in the walker's order
    searchRet,      \* the last search and what it returned
    scalls,         \* searches made so far
    \* ---- application state (core/state.rs) ----
    user_preferences,   \* AppState.user_preferences: key -> value
    appRet,         \* the AppState call that returned last, and what it returned
    appcalls,       \* AppState calls made so far
    \* ---- known-files cache scan (filesystem/watcher.rs) ----
    known_files_len,\* KNOWN_FILES.len() as the populating scan sees it
    scan_stack,     \* per open call of scan_directory_for_cache: entries taken
    cache_scans,    \* populating scans started so far
    \* ---- lock acquisitions of the commands and threads ----
    lpc,            \* per thread: the function it runs and the next step of it
    holders         \* per lock: the threads that hold it, each with its mode

ptyVars == <<sessions, sessionsLock, nextId, last_activity, rxOpen, chan,
             reader, readerExit, acc, out, shell, pc, cmd, ret, racc, rchunks,
             placed, delivered, closedIds>>

stateVars == <<ai_providers, chat_sessions, stpc, sttmp, history>>

chatVars == <<usedIds, chpc, chcmd, chatRet, sent>>

watcherVars == <<watchers, watched_paths, debouncers, KNOWN_FILES, files,
                 pending, wpc, wcmd, wret, wcalls, wchanges, wlog>>

internVars == <<interner, reverse_map, internerLock, reverseLock, ipc, icmd,
                iret, handles>>

fileVars == <<disk, current_project, fpc, fcmd, fret, fcalls>>

scanVars == <<tree, spc, scan_limit, scan_offset, collected, scanRet, cleanRet>>

searchVars == <<corpus, searchRet, scalls>>

appVars == <<user_preferences, appRet, appcalls>>

cacheVars == <<known_files_len, scan_stack, cache_scans>>

lockVars == <<lpc, holders>>

vars == <<ptyVars, stateVars, chatVars, watcherVars, internVars, fileVars, scanVars,
          searchVars, appVars, cacheVars,
                  lockVars>>

nonPtyVars == <<stateVars, chatVars, watcherVars, internVars, fileVars, scanVars,
                  searchVars, appVars, cacheVars,
                  lockVars>>
nonStateVars == <<ptyVars, chatVars, watcherVars, internVars, fileVars, scanVars,
                  searchVars, appVars, cacheVars,
                  lockVars>>
nonChatVars == <<ptyVars, ai_providers, stpc, sttmp, history, watcherVars, internVars,
                 fileVars, scanVars, searchVars, appVars, cacheVars,
                  lockVars>>
nonWatcherVars == <<ptyVars, stateVars, chatVars, internVars, fileVars, scanVars,
                  searchVars, appVars, cacheVars,
                  lockVars>>
nonInternVars == <<ptyVars, stateVars, chatVars, watcherVars, fileVars, scanVars,
                  searchVars, appVars, cacheVars,
                  lockVars>>
nonFileVars == <<ptyVars, stateVars, chatVars, watcherVars, internVars, scanVars,
                  searchVars, appVars, cacheVars,
                  lockVars>>
nonScanVars == <<ptyVars, stateVars, chatVars, watcherVars, internVars, fileVars,
                 searchVars, appVars, cacheVars,
                  lockVars>>
nonSearchVars == <<ptyVars, stateVars, chatVars, watcherVars, internVars, fileVars,
                   scanVars, appVars, cacheVars,
                  lockVars>>
nonCacheVars == <<ptyVars, stateVars, chatVars, watcherVars, internVars, fileVars,
                  scanVars, searchVars, appVars, lockVars>>
nonLockVars == <<ptyVars, stateVars, chatVars, watcherVars, internVars, fileVars,
                 scanVars, searchVars, appVars, cacheVars>>

(***************************************************************************)
(* PTY multiplexer                                                         *)
(***************************************************************************)
NoCmd == [op |-> None, sid |-> 0]

RECURSIVE Flatten(_)
Flatten(chunks) ==
    IF chunks = <<>> THEN <<>> ELSE Head(chunks) \o Flatten(Tail(chunks))

InitPty ==
    /\ sessions = {}
    /\ sessionsLock = None
    /\ nextId = 0
    /\ last_activity = [s \in SessionIds |-> 0]
    /\ rxOpen = [s \in SessionIds |-> FALSE]
    /\ chan = [s \in SessionIds |-> <<>>]
    /\ reader = [s \in SessionIds |-> None]
    /\ readerExit = [s \in SessionIds |-> None]
    /\ acc = [s \in SessionIds |-> <<>>]
    /\ out = 0
    /\ shell = [s \in SessionIds |-> None]
    /\ pc = [t \in Threads |-> "idle"]
    /\ cmd = [t \in Threads |-> NoCmd]
    /\ ret = [op |-> None, sid |-> 0, res |-> None]
    /\ racc = [t \in Threads |-> <<>>]
    /\ rchunks = [t \in Threads |-> 0]
    /\ placed = [s \in SessionIds |-> <<>>]
    /\ delivered = [s \in SessionIds |-> <<>>]
    /\ closedIds = {}

\* SystemTime::now() in seconds: not before any time already recorded
Now(ts) == ts \in 0..MaxTime /\ \A s \in SessionIds : last_activity[s] <= ts

\* mpsc::Sender::try_send: Closed when the receiver was dropped, Full at capacity
try_send(s) ==
    IF ~rxOpen[s] THEN "Closed"
    ELSE IF Len(chan[s]) >= ChannelCapacity THEN "Full"
    ELSE "Ok"

\* the shell child exits: the PTY read side reaches EOF
ShellExit(s) ==
    /\ shell[s] = "alive"
    /\ shell' = [shell EXCEPT ![s] = "exited"]
    /\ UNCHANGED <<sessions, sessionsLock, nextId, last_activity, rxOpen,
                   chan, reader, readerExit, acc, out, pc, cmd, ret, racc, rchunks, placed, delivered, closedIds, nonPtyVars>>

\* reader thread, Ok(n): accumulate, and forward when should_flush holds
\* (should_flush depends on lengths, elapsed time and the bytes read: either way)
ReaderRead(s, should_flush) ==
    /\ reader[s] = "running"
    /\ shell[s] = "alive"
    /\ out < MaxOut
    /\ out' = out + 1
    /\ LET accumulated == Append(acc[s], out + 1) IN
       IF should_flush
       THEN IF try_send(s) = "Ok"
            THEN /\ chan' = [chan EXCEPT ![s] = Append(@, accumulated)]
                 /\ placed' = [placed EXCEPT ![s] = @ \o accumulated]
                 /\ acc' = [acc EXCEPT ![s] = <<>>]
                 /\ UNCHANGED <<reader, readerExit>>
            ELSE \* try_send(..).is_err(): break
                 /\ reader' = [reader EXCEPT ![s] = "exited"]
                 /\ readerExit' = [readerExit EXCEPT ![s] = try_send(s)]
                 /\ acc' = [acc EXCEPT ![s] = <<>>]
                 /\ UNCHANGED <<chan, placed>>
       ELSE /\ acc' = [acc EXCEPT ![s] = accumulated]
            /\ UNCHANGED <<chan, placed, reader, readerExit>>
    /\ UNCHANGED <<sessions, sessionsLock, nextId, last_activity, rxOpen,
                   shell, pc, cmd, ret, racc, rchunks, delivered, closedIds, nonPtyVars>>

\* reader thread, Ok(0): final flush, its result ignored, then exit
ReaderEof(s) ==
    /\ reader[s] = "running"
    /\ shell[s] = "exited"
    /\ IF acc[s] # <<>> /\ try_send(s) = "Ok"
       THEN /\ chan' = [chan EXCEPT ![s] = Append(@, acc[s])]
            /\ placed' = [placed EXCEPT ![s] = @ \o acc[s]]
       ELSE UNCHANGED <<chan, placed>>
    /\ acc' = [acc EXCEPT ![s] = <<>>]
    /\ reader' = [reader EXCEPT ![s] = "exited"]
    /\ readerExit' = [readerExit EXCEPT ![s] = "Eof"]
    /\ UNCHANGED <<sessions, sessionsLock, nextId, last_activity, rxOpen,
                   out, shell, pc, cmd, ret, racc, rchunks, delivered, closedIds, nonPtyVars>>

\* reader thread, Err(_): flush pending output once 30 ms have passed
ReaderErr(s) ==
    /\ reader[s] = "running"
    /\ acc[s] # <<>>
    /\ IF try_send(s) = "Ok"
       THEN /\ chan' = [chan EXCEPT ![s] = Append(@, acc[s])]
            /\ placed' = [placed EXCEPT ![s] = @ \o acc[s]]
            /\ UNCHANGED <<reader, readerExit>>
       ELSE /\ reader' = [reader EXCEPT ![s] = "exited"]
            /\ readerExit' = [readerExit EXCEPT ![s] = try_send(s)]
            /\ UNCHANGED <<chan, placed>>
    /\ acc' = [acc EXCEPT ![s] = <<>>]
    /\ UNCHANGED <<sessions, sessionsLock, nextId, last_activity, rxOpen,
                   out, shell, pc, cmd, ret, racc, rchunks, delivered, closedIds, nonPtyVars>>

\* ids the UI can name: those a create_session call has returned
KnownIds ==
    {s \in 1..nextId : \A t \in Threads : ~(pc[t] = "create_store" /\ cmd[t].sid = s)}

\* a call returns res to the UI
Return(op, sid, res) == [op |-> op, sid |-> sid, res |-> res]

\* a command task can start a call on session sid and take the sessions mutex:
\* until the mutex is free the task waits in self.sessions.lock()
CanLock(t, sid) ==
    /\ pc[t] = "idle"
    /\ sid \in KnownIds
    /\ sessionsLock = None

\* create_session up to thread::spawn: the PTY is open, the shell runs, the
\* channel exists and the reader thread is started; the record is not stored yet
CreateSpawn(t, ts) ==
    /\ pc[t] = "idle"
    /\ nextId < MaxSessions
    /\ Now(ts)
    /\ LET s == nextId + 1 IN
       /\ nextId' = s
       /\ shell' = [shell EXCEPT ![s] = "alive"]
       /\ reader' = [reader EXCEPT ![s] = "running"]
       /\ rxOpen' = [rxOpen EXCEPT ![s] = TRUE]
       /\ last_activity' = [last_activity EXCEPT ![s] = ts]
       /\ cmd' = [cmd EXCEPT ![t] = [op |-> "create_session", sid |-> s]]
    /\ pc' = [pc EXCEPT ![t] = "create_store"]
    /\ UNCHANGED <<sessions, sessionsLock, chan, readerExit, acc, out, racc, rchunks, placed, delivered, closedIds, ret, nonPtyVars>>

\* create_session: lock the map, insert the record, return the id
CreateStore(t) ==
    /\ pc[t] = "create_store"
    /\ sessionsLock = None
    /\ sessions' = sessions \cup {cmd[t].sid}
    /\ pc' = [pc EXCEPT ![t] = "idle"]
    /\ cmd' = [cmd EXCEPT ![t] = NoCmd]
    /\ ret' = Return("create_session", cmd[t].sid, "Ok")
    /\ UNCHANGED <<sessionsLock, nextId, last_activity, rxOpen, chan, reader,
                   readerExit, acc, out, shell, racc, rchunks, placed,
                   delivered, closedIds, nonPtyVars>>

\* send_input: the map lock is held for the whole call; last_activity is set
\* before the write, which fails only when the shell side is gone
SendInput(t, sid, ts, written) ==
    /\ CanLock(t, sid)
    /\ IF sid \notin sessions
       THEN /\ ret' = Return("send_input", sid, "NotFound")
            /\ ts = 0 /\ written
            /\ UNCHANGED last_activity
       ELSE /\ written \/ shell[sid] = "exited"
            /\ Now(ts)
            /\ last_activity' = [last_activity EXCEPT ![sid] = ts]
            /\ ret' = Return("send_input", sid, IF written THEN "Ok" ELSE "WriteFailed")
    /\ UNCHANGED <<sessions, sessionsLock, nextId, rxOpen, chan, reader,
                   readerExit, acc, out, shell, pc, cmd, racc, rchunks, placed,
                   delivered, closedIds, nonPtyVars>>

\* read_output up to the loop: lock the map, look the session up, lock its receiver
ReadBegin(t, sid) ==
    /\ CanLock(t, sid)
    /\ IF sid \notin sessions
       THEN /\ ret' = Return("read_output", sid, "NotFound")
            /\ UNCHANGED <<sessionsLock, pc, cmd, racc, rchunks>>
       ELSE /\ sessionsLock' = t
            /\ pc' = [pc EXCEPT ![t] = "read_loop"]
            /\ cmd' = [cmd EXCEPT ![t] = [op |-> "read_output", sid |-> sid]]
            /\ racc' = [racc EXCEPT ![t] = <<>>]
            /\ rchunks' = [rchunks EXCEPT ![t] = 0]
            /\ UNCHANGED ret
    /\ UNCHANGED <<sessions, nextId, last_activity, rxOpen, chan, reader,
                   readerExit, acc, out, shell, placed, delivered, closedIds, nonPtyVars>>

\* read_output leaves the loop: the receiver and map locks are released
ReadLeave(t) ==
    /\ racc' = [racc EXCEPT ![t] = <<>>]
    /\ rchunks' = [rchunks EXCEPT ![t] = 0]
    /\ sessionsLock' = None
    /\ pc' = [pc EXCEPT ![t] = "idle"]
    /\ cmd' = [cmd EXCEPT ![t] = NoCmd]

\* read_output returns Ok(accumulated_output)
ReadReturnOk(t, ts) ==
    LET s == cmd[t].sid IN
    /\ IF racc[t] # <<>>
       THEN Now(ts) /\ last_activity' = [last_activity EXCEPT ![s] = ts]
       ELSE ts = 0 /\ UNCHANGED last_activity
    /\ delivered' = [delivered EXCEPT ![s] = @ \o racc[t]]
    /\ ret' = Return("read_output", s, "Ok")
    /\ ReadLeave(t)

\* read_output returns Err("Terminal session disconnected")
ReadReturnDisconnected(t) ==
    /\ ret' = Return("read_output", cmd[t].sid, "Disconnected")
    /\ ReadLeave(t)
    /\ UNCHANGED <<last_activity, delivered>>

\* read_output, one round of the while loop (the map lock still held); expired
\* tells whether start_time.elapsed() has reached timeout_ms
ReadPoll(t, ts, expired) ==
    LET s == cmd[t].sid IN
    /\ pc[t] = "read_loop"
    /\ IF expired
       THEN \* start_time.elapsed() >= timeout_ms
            /\ ReadReturnOk(t, ts)
            /\ UNCHANGED chan
       ELSE IF chan[s] # <<>>
       THEN \* Ok(output): push_str, sleep 5 ms
            /\ ts = 0
            /\ racc' = [racc EXCEPT ![t] = @ \o Head(chan[s])]
            /\ rchunks' = [rchunks EXCEPT ![t] = @ + 1]
            /\ chan' = [chan EXCEPT ![s] = Tail(@)]
            /\ UNCHANGED <<last_activity, delivered, ret, sessionsLock, pc, cmd>>
       ELSE IF reader[s] # "exited"
       THEN \* Err(Empty)
            IF racc[t] # <<>>
            THEN /\ ReadReturnOk(t, ts)
                 /\ UNCHANGED chan
            ELSE \* sleep 10 ms
                 /\ ts = 0
                 /\ UNCHANGED <<racc, rchunks, chan, last_activity, delivered, ret,
                                sessionsLock, pc, cmd>>
       ELSE \* Err(Disconnected): the sender was dropped with the reader thread
            /\ ts = 0
            /\ ReadReturnDisconnected(t)
            /\ UNCHANGED chan
    /\ UNCHANGED <<sessions, nextId, rxOpen, reader, readerExit, acc, out,
                   shell, placed, closedIds, nonPtyVars>>

\* resize_session and get_session_info: lock the map, look up, act, unlock
LookupOnly(t, op, sid) ==
    /\ op \in {"resize_session", "get_session_info"}
    /\ CanLock(t, sid)
    /\ ret' = Return(op, sid, IF sid \in sessions THEN "Ok" ELSE "NotFound")
    /\ UNCHANGED <<sessions, sessionsLock, nextId, last_activity, rxOpen,
                   chan, reader, readerExit, acc, out, shell, pc, cmd, racc, rchunks,
                   placed, delivered, closedIds, nonPtyVars>>

\* a close_session that forgets to remove the record
RemoveSessionKeeps(map, id) == map

\* HashMap::remove in close_session
RemoveSession(map, id) == map \ {id}

\* close_session: lock the map, remove the record (dropping its receiver, writer
\* and master PTY), return Ok whether or not the id was present
CloseSession(t, sid) ==
    /\ CanLock(t, sid)
    /\ sessions' = RemoveSession(sessions, sid)
    /\ rxOpen' = [x \in SessionIds |-> rxOpen[x] /\ (x \in sessions => x \in sessions')]
    /\ chan' = [x \in SessionIds |-> IF x \in sessions /\ x \notin sessions' THEN <<>> ELSE chan[x]]
    /\ closedIds' = closedIds \cup {sid}
    /\ ret' = Return("close_session", sid, "Ok")
    /\ UNCHANGED <<sessionsLock, nextId, last_activity, reader, readerExit,
                   acc, out, shell, pc, cmd, racc, rchunks, placed, delivered, nonPtyVars>>

NextPty ==
    \/ \E s \in SessionIds : ShellExit(s)
    \/ \E s \in SessionIds, f \in BOOLEAN : ReaderRead(s, f)
    \/ \E s \in SessionIds : ReaderEof(s)
    \/ \E s \in SessionIds : ReaderErr(s)
    \/ \E t \in Threads, ts \in 0..MaxTime : CreateSpawn(t, ts)
    \/ \E t \in Threads : CreateStore(t)
    \/ \E t \in Threads, s \in SessionIds, ts \in 0..MaxTime, w \in BOOLEAN :
          SendInput(t, s, ts, w)
    \/ \E t \in Threads, s \in SessionIds : ReadBegin(t, s)
    \/ \E t \in Threads, ts \in 0..MaxTime, e \in BOOLEAN : ReadPoll(t, ts, e)
    \/ \E t \in Threads, s \in SessionIds :
          LookupOnly(t, "resize_session", s) \/ LookupOnly(t, "get_session_info", s)
    \/ \E t \in Threads, s \in SessionIds : CloseSession(t, s)

(***************************************************************************)
(* PTY multiplexer: properties                                             *)
(***************************************************************************)
\* a command task other than t could run op on session b to completion now
CanRun(u, b) ==
    /\ ENABLED (\E ts \in 0..MaxTime, w \in BOOLEAN : SendInput(u, b, ts, w))
    /\ ENABLED ReadBegin(u, b)
    /\ ENABLED LookupOnly(u, "resize_session", b)
    /\ ENABLED CloseSession(u, b)

\* C1: operations on different PTY sessions never block one another: while a
\* read_output call on session A waits for output, a send_input, read_output,
\* resize_session or close_session on another session B can run.
C1_DifferentSessionsNeverBlock ==
    \A t \in Threads, u \in Threads, b \in KnownIds :
        (pc[t] = "read_loop" /\ u # t /\ pc[u] = "idle" /\ b # cmd[t].sid)
            => CanRun(u, b)

\* C2: when the channel is full the reader thread drops the chunk and keeps
\* reading: the channel never holds more than its capacity, and the reader
\* thread never leaves its loop because the channel was full.
C2_FullChannelDropsChunk ==
    \A s \in SessionIds :
        /\ Len(chan[s]) <= ChannelCapacity
        /\ readerExit[s] # "Full"

\* what the read_output call in progress on session s has taken off the channel
Taken(s) ==
    IF \E t \in Threads : pc[t] = "read_loop" /\ cmd[t].sid = s
    THEN racc[CHOOSE t \in Threads : pc[t] = "read_loop" /\ cmd[t].sid = s]
    ELSE <<>>

\* C3: for each open session the strings returned by successive read_output
\* calls, followed by what the call in progress holds and what is still queued,
\* are exactly the chunks the reader thread placed on the channel, in order: no
\* chunk is taken off the channel without being returned.
C3_OutputReconstructed ==
    \A s \in sessions : placed[s] = delivered[s] \o Taken(s) \o Flatten(chan[s])

LookupOps == {"send_input", "read_output", "resize_session", "get_session_info"}

\* the record of session x is neither removed nor altered in this step
SessionUntouched(x) ==
    /\ (x \in sessions) = (x \in sessions')
    /\ rxOpen'[x] = rxOpen[x]
    /\ chan'[x] = chan[x]
    /\ last_activity'[x] = last_activity[x]
    /\ shell'[x] = shell[x]

\* C4: once close_session(id) has returned, every send_input, read_output,
\* resize_session and get_session_info on id returns session-not-found; a
\* session record leaves the map only by a close_session on its own id, and a
\* close_session leaves every other session's record as it was.
C4_ClosedSessionNotFound ==
    [][ /\ (ret' # ret /\ ret'.op \in LookupOps /\ ret'.sid \in closedIds)
            => ret'.res = "NotFound"
        /\ \A x \in sessions :
              x \notin sessions' => (ret'.op = "close_session" /\ ret'.sid = x)
        /\ ((ret' # ret \/ sessions' # sessions) /\ ret'.op = "close_session")
            => \A x \in SessionIds \ {ret'.sid} : SessionUntouched(x)
      ]_vars

\* a lookup on a closed id has returned not-found while another session is open
C4_Witness ==
    /\ ret.op \in LookupOps
    /\ ret.sid \in closedIds
    /\ ret.res = "NotFound"
    /\ sessions # {}

\* list_sessions: a record for every session in the map, each with
\* is_active: true
list_sessions == {[id |-> s, is_active |-> TRUE] : s \in sessions}

\* C24: one read_output call takes no more than CHUNK_CAP chunks off the
\* channel
C24_ReadTakesAtMostCap == \A t \in Threads : rchunks[t] <= CHUNK_CAP

\* C25: once a session's receiver is dropped or its shell has exited, the
\* session's reader thread eventually exits, whether or not the shell
\* produces more output
C25_ReaderEventuallyExits ==
    \A s \in SessionIds :
        (reader[s] = "running" /\ (~rxOpen[s] \/ shell[s] = "exited"))
            ~> (reader[s] = "exited")

\* C26: once the reader thread of a session has seen EOF, the session is
\* eventually out of the map and list_sessions reports it no more
C26_ExitedSessionRemoved ==
    \A s \in SessionIds :
        (readerExit[s] = "Eof")
            ~> (s \notin sessions /\ \A info \in list_sessions : info.id # s)

\* C27: last_activity of a session changes only when the session is created,
\* in a send_input that wrote its input, and in a read_output that returns
\* output that is not empty
C27_LastActivityFrame ==
    [][ \A s \in SessionIds :
            last_activity'[s] # last_activity[s] =>
                \/ \E t \in Threads, ts \in 0..MaxTime :
                       CreateSpawn(t, ts) /\ nextId' = s
                \/ \E t \in Threads, ts \in 0..MaxTime : SendInput(t, s, ts, TRUE)
                \/ \E t \in Threads, ts \in 0..MaxTime, e \in BOOLEAN :
                       /\ ReadPoll(t, ts, e)
                       /\ cmd[t].sid = s
                       /\ racc[t] # <<>>
                       /\ ret'.res = "Ok"
      ]_vars

(***************************************************************************)
(* State kernel: StateCollection over ai_providers and chat_sessions       *)
(***************************************************************************)
ProviderIds == {"claude", "gpt4"}
ProviderNames == {"n1", "n2"}
Providers == [id : ProviderIds, name : ProviderNames, is_available : BOOLEAN]
\* chat sessions as the StateCollection sees them: an id and a message log
ChatItems == [id : {"c1"}, messages : {<<>>, <<[message_type |-> "user", content |-> "m1"]>>}]

EmptyMap == [k \in {} |-> None]

\* HashMap::insert
Insert(map, key, value) ==
    [k \in DOMAIN map \cup {key} |-> IF k = key THEN value ELSE map[k]]

\* HashMap::remove
Remove(map, key) == [k \in DOMAIN map \ {key} |-> map[k]]

\* StateCollection::get_id (AiProviderCollection, ChatSessionCollection)
get_id(item) == item.id

\* StateCollection::add_item
add_item(map, item) == Insert(map, get_id(item), item)

\* an update that refuses an id that is not stored yet
update_item_if_present(map, item) ==
    IF get_id(item) \in DOMAIN map THEN Insert(map, get_id(item), item) ELSE map

\* StateCollection::update_item
update_item(map, item) == Insert(map, get_id(item), item)

\* Option<T>: Some(x) is <<x>>, None is <<>>
Some(x) == <<x>>
Nothing == <<>>

\* StateCollection::get_item
get_item(map, id) == IF id \in DOMAIN map THEN Some(map[id]) ELSE Nothing

\* StateCollection::remove_item: the map afterwards, and the result
remove_item(map, id) ==
    IF id \in DOMAIN map
    THEN [map |-> Remove(map, id), res |-> "Ok"]
    ELSE [map |-> map, res |-> "ITEM_NOT_FOUND"]

InitState ==
    /\ ai_providers = EmptyMap
    /\ chat_sessions = EmptyMap
    /\ stpc = [t \in Threads |-> "idle"]
    /\ sttmp = [t \in Threads |-> Nothing]
    /\ history = <<>>

\* calls of the state kernel; the fields a call does not use are Nothing
Call(op, item, id, available) ==
    [op |-> op, item |-> item, id |-> id, available |-> available]

\* a call returns: res is "Ok" or an error code, val the Option<T> of a get
\* inv: how many calls had returned when this one was invoked; ret: its own place
Returned(call, res, val, inv) ==
    Append(history, [call |-> call, res |-> res, val |-> val,
                     inv |-> inv, ret |-> Len(history) + 1])

\* a call that takes the map's mutex once: it is invoked and returns in one step
Done(call, res, val) == Returned(call, res, val, Len(history))

\* a task may start another call
CanCall(t) ==
    /\ stpc[t] = "idle"
    /\ Len(history) + Cardinality({u \in Threads : stpc[u] # "idle"}) < MaxCalls

\* AppState::add_ai_provider
AddAiProvider(t, item) ==
    /\ CanCall(t)
    /\ ai_providers' = add_item(ai_providers, item)
    /\ history' = Done(Call("add_ai_provider", Some(item), None, Nothing), "Ok", Nothing)
    /\ UNCHANGED <<chat_sessions, stpc, sttmp, nonStateVars>>

\* AppState::update_ai_provider
UpdateAiProvider(t, item) ==
    /\ CanCall(t)
    /\ ai_providers' = update_item(ai_providers, item)
    /\ history' = Done(Call("update_ai_provider", Some(item), None, Nothing), "Ok", Nothing)
    /\ UNCHANGED <<chat_sessions, stpc, sttmp, nonStateVars>>

\* AppState::remove_ai_provider
RemoveAiProvider(t, id) ==
    /\ CanCall(t)
    /\ ai_providers' = remove_item(ai_providers, id).map
    /\ history' = Done(Call("remove_ai_provider", Nothing, id, Nothing),
                       remove_item(ai_providers, id).res, Nothing)
    /\ UNCHANGED <<chat_sessions, stpc, sttmp, nonStateVars>>

\* AppState::get_ai_provider
GetAiProvider(t, id) ==
    /\ CanCall(t)
    /\ history' = Done(Call("get_ai_provider", Nothing, id, Nothing),
                       "Ok", get_item(ai_providers, id))
    /\ UNCHANGED <<ai_providers, chat_sessions, stpc, sttmp, nonStateVars>>

\* AppState::update_ai_provider_availability, first half: get_ai_provider under
\* the map's mutex, which is released when it returns
AvailabilityGet(t, id, available) ==
    /\ CanCall(t)
    /\ IF get_item(ai_providers, id) = Nothing
       THEN /\ history' = Done(Call("update_ai_provider_availability", Nothing, id,
                                    Some(available)), "PROVIDER_NOT_FOUND", Nothing)
            /\ UNCHANGED <<stpc, sttmp>>
       ELSE /\ stpc' = [stpc EXCEPT ![t] = "avail_update"]
            /\ sttmp' = [sttmp EXCEPT ![t] =
                            Some([id |-> id, available |-> available, inv |-> Len(history),
                                  provider |-> [get_item(ai_providers, id)[1]
                                                  EXCEPT !.is_available = available]])]
            /\ UNCHANGED history
    /\ UNCHANGED <<ai_providers, chat_sessions, nonStateVars>>

\* AppState::update_ai_provider_availability, second half: update_ai_provider
\* with the modified copy, under the mutex taken again
AvailabilityUpdate(t) ==
    /\ stpc[t] = "avail_update"
    /\ ai_providers' = update_item(ai_providers, sttmp[t][1].provider)
    /\ history' = Returned(Call("update_ai_provider_availability", Nothing,
                                 sttmp[t][1].id, Some(sttmp[t][1].available)),
                            "Ok", Nothing, sttmp[t][1].inv)
    /\ stpc' = [stpc EXCEPT ![t] = "idle"]
    /\ sttmp' = [sttmp EXCEPT ![t] = Nothing]
    /\ UNCHANGED <<chat_sessions, nonStateVars>>

\* AppState::add_chat_session
AddChatSession(t, item) ==
    /\ CanCall(t)
    /\ chat_sessions' = add_item(chat_sessions, item)
    /\ history' = Done(Call("add_chat_session", Some(item), None, Nothing), "Ok", Nothing)
    /\ UNCHANGED <<ai_providers, stpc, sttmp, nonStateVars>>

\* AppState::update_chat_session
UpdateChatSession(t, item) ==
    /\ CanCall(t)
    /\ chat_sessions' = update_item(chat_sessions, item)
    /\ history' = Done(Call("update_chat_session", Some(item), None, Nothing), "Ok", Nothing)
    /\ UNCHANGED <<ai_providers, stpc, sttmp, nonStateVars>>

NextState ==
    \/ \E t \in Threads, item \in Providers : AddAiProvider(t, item)
    \/ \E t \in Threads, item \in Providers : UpdateAiProvider(t, item)
    \/ \E t \in Threads, id \in ProviderIds : RemoveAiProvider(t, id)
    \/ \E t \in Threads, id \in ProviderIds : GetAiProvider(t, id)
    \/ \E t \in Threads, id \in ProviderIds, a \in BOOLEAN : AvailabilityGet(t, id, a)
    \/ \E t \in Threads : AvailabilityUpdate(t)
    \/ \E t \in Threads, item \in ChatItems : AddChatSession(t, item)
    \/ \E t \in Threads, item \in ChatItems : UpdateChatSession(t, item)

(***************************************************************************)
(* State kernel: properties                                                *)
(***************************************************************************)
ProviderOps == {"add_ai_provider", "update_ai_provider", "remove_ai_provider",
                "get_ai_provider", "update_ai_provider_availability"}

\* the calls on the provider map, in the order in which they returned
ProviderHistory == SelectSeq(history, LAMBDA e : e.call.op \in ProviderOps)

\* one call executed alone on the provider map: the map afterwards and what
\* the call returns
SeqApply(map, call) ==
    CASE call.op = "add_ai_provider" ->
           [map |-> add_item(map, call.item[1]), res |-> "Ok", val |-> Nothing]
      [] call.op = "update_ai_provider" ->
           [map |-> update_item(map, call.item[1]), res |-> "Ok", val |-> Nothing]
      [] call.op = "remove_ai_provider" ->
           [map |-> remove_item(map, call.id).map,
            res |-> remove_item(map, call.id).res, val |-> Nothing]
      [] call.op = "get_ai_provider" ->
           [map |-> map, res |-> "Ok", val |-> get_item(map, call.id)]
      [] call.op = "update_ai_provider_availability" ->
           IF call.id \in DOMAIN map
           THEN [map |-> update_item(map, [map[call.id] EXCEPT
                                             !.is_available = call.available[1]]),
                 res |-> "Ok", val |-> Nothing]
           ELSE [map |-> map, res |-> "PROVIDER_NOT_FOUND", val |-> Nothing]

\* the calls of h run one after another in the order ord, from the map m:
\* ok iff every call returns what h records for it
RECURSIVE SeqRun(_, _, _, _)
SeqRun(m, h, ord, i) ==
    IF i > Len(h)
    THEN [ok |-> TRUE, map |-> m]
    ELSE LET e == h[ord[i]]
             r == SeqApply(m, e.call)
         IN  IF r.res = e.res /\ r.val = e.val
             THEN SeqRun(r.map, h, ord, i + 1)
             ELSE [ok |-> FALSE, map |-> m]

\* the orders of the calls of h that keep a call which returned before another
\* was invoked in front of it
Orders(h) ==
    {ord \in [1..Len(h) -> 1..Len(h)] :
        /\ \A i, j \in 1..Len(h) : i # j => ord[i] # ord[j]
        /\ \A i, j \in 1..Len(h) : h[ord[i]].ret <= h[ord[j]].inv => i < j}

\* C5: once every call has returned, the results the calls on the provider map
\* returned and the map they left equal those of some sequential ordering of
\* the same calls
C5_Linearizable ==
    (\A t \in Threads : stpc[t] = "idle") =>
        \E ord \in Orders(ProviderHistory) :
            LET run == SeqRun(EmptyMap, ProviderHistory, ord, 1)
            IN  run.ok /\ run.map = ai_providers

AddUpdateOps == {"add_ai_provider", "update_ai_provider",
                 "add_chat_session", "update_chat_session"}

\* the last call that returned
LastCall(h) == h[Len(h)]

\* map2 is map1 with item inserted or replaced under key id, nothing else touched
InsertOrReplace(map1, map2, id, item) ==
    /\ DOMAIN map2 = DOMAIN map1 \cup {id}
    /\ map2[id] = item
    /\ \A k \in DOMAIN map1 \ {id} : map2[k] = map1[k]

\* C10: add and update both insert or replace the item under its id, whether
\* or not the id is stored; so add(item) then update(item) leaves what
\* add(item) left, and repeating a call with the same item changes nothing
C10_AddUpdateInsertOrReplace ==
    [][ (history' # history /\ LastCall(history').call.op \in AddUpdateOps) =>
          LET c == LastCall(history').call
              item == c.item[1]
              onProviders == c.op \in ProviderOps
              before == IF onProviders THEN ai_providers ELSE chat_sessions
              after == IF onProviders THEN ai_providers' ELSE chat_sessions'
          IN  /\ InsertOrReplace(before, after, item.id, item)
              /\ get_item(before, item.id) = Some(item) => after = before
      ]_vars

\* update(item) has just returned right after add(item), on a collection that
\* holds other items too, and update(item) also ran on an id not stored before
C10_Witness ==
    /\ Len(history) >= 3
    /\ history[Len(history)].call.op = "update_ai_provider"
    /\ history[Len(history) - 1].call.op = "add_ai_provider"
    /\ history[Len(history)].call.item = history[Len(history) - 1].call.item
    /\ history[1].call.op = "update_ai_provider"
    /\ Cardinality(DOMAIN ai_providers) = 2

(***************************************************************************)
(* Chat commands over AppState.chat_sessions                               *)
(***************************************************************************)
\* the values generate_id can return
ChatIds == {"c1", "c2", "c3", "c4"}
Contents == {"m1", "m2"}

\* ChatMessage::user_message (id, timestamp and metadata left out)
user_message(content) == [message_type |-> "user", content |-> content]

\* ChatSession::new (name, context and the timestamps left out)
NewChatSession(id) == [id |-> id, messages |-> <<>>]

\* a log that puts the newest message first
add_message_first(session, message) ==
    [session EXCEPT !.messages = <<message>> \o @]

\* ChatSession::add_message
add_message(session, message) ==
    [session EXCEPT !.messages = Append(@, message)]

NoChatRet == [op |-> None, key |-> None, res |-> None, val |-> Nothing]

InitChat ==
    /\ usedIds = {}
    /\ chpc = [t \in Threads |-> "idle"]
    /\ chcmd = [t \in Threads |-> Nothing]
    /\ chatRet = NoChatRet
    /\ sent = EmptyMap

\* create_chat_session: the map key and the id inside the ChatSession come
\* from two calls of generate_id
CreateChatSession(t, session_id, id) ==
    /\ chpc[t] = "idle"
    /\ Cardinality(DOMAIN sent) < MaxChats
    /\ session_id \notin usedIds
    /\ id \notin usedIds \cup {session_id}
    /\ usedIds' = usedIds \cup {session_id, id}
    /\ chat_sessions' = Insert(chat_sessions, session_id, NewChatSession(id))
    /\ sent' = Insert(sent, session_id, <<>>)
    /\ chatRet' = [op |-> "create_chat_session", key |-> session_id,
                   res |-> "Ok", val |-> Nothing]
    /\ UNCHANGED <<chpc, chcmd, nonChatVars>>

\* messages the sends of this run have put into the logs or are about to
MsgsSent ==
    LET RECURSIVE Sum(_)
        Sum(S) == IF S = {} THEN 0
                  ELSE LET k == CHOOSE x \in S : TRUE
                       IN  Len(sent[k]) + Sum(S \ {k})
    IN  Sum(DOMAIN sent) + Cardinality({u \in Threads : chpc[u] # "idle"})

\* send_chat_message up to the lock: the user message is built
SendChatMessageBegin(t, session_id, content) ==
    /\ chpc[t] = "idle"
    /\ MsgsSent < MaxMsgs
    /\ chpc' = [chpc EXCEPT ![t] = "send_lock"]
    /\ chcmd' = [chcmd EXCEPT ![t] =
                    Some([session_id |-> session_id,
                          user_message |-> user_message(content)])]
    /\ UNCHANGED <<chat_sessions, usedIds, chatRet, sent, nonChatVars>>

\* send_chat_message under the chat_sessions mutex
SendChatMessageLocked(t) ==
    /\ chpc[t] = "send_lock"
    /\ LET session_id == chcmd[t][1].session_id
           message == chcmd[t][1].user_message
       IN  IF session_id \in DOMAIN chat_sessions
           THEN /\ chat_sessions' = [chat_sessions EXCEPT ![session_id] =
                                         add_message(@, message)]
                /\ sent' = [sent EXCEPT ![session_id] = Append(@, message)]
                /\ chatRet' = [op |-> "send_chat_message", key |-> session_id,
                               res |-> "Ok", val |-> Some(message)]
           ELSE /\ chatRet' = [op |-> "send_chat_message", key |-> session_id,
                               res |-> "Chat session not found", val |-> Nothing]
                /\ UNCHANGED <<chat_sessions, sent>>
    /\ chpc' = [chpc EXCEPT ![t] = "idle"]
    /\ chcmd' = [chcmd EXCEPT ![t] = Nothing]
    /\ UNCHANGED <<usedIds, nonChatVars>>

\* get_chat_session
GetChatSession(t, session_id) ==
    /\ chpc[t] = "idle"
    /\ chatRet' = IF session_id \in DOMAIN chat_sessions
                  THEN [op |-> "get_chat_session", key |-> session_id,
                        res |-> "Ok", val |-> Some(chat_sessions[session_id])]
                  ELSE [op |-> "get_chat_session", key |-> session_id,
                        res |-> "Chat session not found", val |-> Nothing]
    /\ UNCHANGED <<chat_sessions, usedIds, chpc, chcmd, sent, nonChatVars>>

NextChat ==
    \/ \E t \in Threads, k \in ChatIds, id \in ChatIds : CreateChatSession(t, k, id)
    \/ \E t \in Threads, k \in ChatIds, c \in Contents : SendChatMessageBegin(t, k, c)
    \/ \E t \in Threads : SendChatMessageLocked(t)
    \/ \E t \in Threads, k \in ChatIds : GetChatSession(t, k)

IsPrefix(s, r) == Len(s) <= Len(r) /\ SubSeq(r, 1, Len(s)) = s

\* C9: a session's log only grows at its end, and get_chat_session returns
\* the messages of the successful sends in the order in which they took effect
C9_MessageLogAppendOnly ==
    [][ /\ \A k \in DOMAIN sent :
              /\ k \in DOMAIN chat_sessions'
              /\ IsPrefix(chat_sessions[k].messages, chat_sessions'[k].messages)
        /\ (chatRet' # chatRet /\ chatRet'.op = "get_chat_session"
                               /\ chatRet'.key \in DOMAIN sent') =>
              /\ chatRet'.res = "Ok"
              /\ chatRet'.val[1].messages = sent'[chatRet'.key]
      ]_vars

\* get_chat_session has returned a log of two different messages
C9_Witness ==
    /\ chatRet.op = "get_chat_session"
    /\ chatRet.res = "Ok"
    /\ Len(chatRet.val[1].messages) >= 2
    /\ chatRet.val[1].messages[1] # chatRet.val[1].messages[2]

\* C38: every entry of the chat-session map is stored under the id its
\* session carries, so the id create_chat_session returns is the id of the
\* session get_chat_session returns for it
C38_KeyIsSessionId ==
    /\ \A k \in DOMAIN chat_sessions : chat_sessions[k].id = k
    /\ (chatRet.op = "get_chat_session" /\ chatRet.res = "Ok") =>
           chatRet.val[1].id = chatRet.key

(***************************************************************************)
(* File-system watcher (filesystem/watcher.rs)                             *)
(***************************************************************************)
\* Paths are strings, written as sequences of characters.
W == <<"/", "w">>
WSlash == <<"/", "w", "/">>
WX == <<"/", "w", "x">>
TmpD == <<"/", "t", "m", "p", "/", "d">>
\* the paths start_file_watcher is called with
RootPaths == {W, WSlash, WX, TmpD}
\* the directories that exist
Dirs == {W, WX}
FileNames == {<<"f">>, <<"a", ".", "p", "y", "c">>}

\* str::contains
Contains(s, pat) ==
    \E i \in 0..(Len(s) - Len(pat)) : SubSeq(s, i + 1, i + Len(pat)) = pat

\* str::starts_with
starts_with(s, prefix) ==
    Len(prefix) <= Len(s) /\ SubSeq(s, 1, Len(prefix)) = prefix

\* Path::join of a directory path and a file name
Join(dir, name) ==
    IF dir[Len(dir)] = "/" THEN dir \o name ELSE dir \o <<"/">> \o name

\* the directory a path names: the file system ignores a trailing separator
Canonical(path) ==
    IF Len(path) > 1 /\ path[Len(path)] = "/"
    THEN SubSeq(path, 1, Len(path) - 1)
    ELSE path

\* the files that can exist
FilePaths == {Join(d, n) : d \in {W}, n \in FileNames} \cup {Join(WX, <<"f">>)}

\* the directory that holds a file
DirOf(p) == CHOOSE d \in Dirs : \E n \in FileNames : p = Join(d, n)

\* the name of a file in its directory
NameOf(p) == CHOOSE n \in FileNames : p = Join(DirOf(p), n)

\* FileSystemWatcher::is_problematic_directory
is_problematic_directory(path) ==
    \E pattern \in {<<"a", "n", "a", "c", "o", "n", "d", "a">>,
                       <<"m", "i", "n", "i", "c", "o", "n", "d", "a">>,
                       <<"n", "o", "d", "e", "_", "m", "o", "d", "u", "l", "e", "s">>,
                       <<".", "n", "p", "m">>,
                       <<".", "c", "a", "c", "h", "e">>,
                       <<"/", "t", "m", "p", "/">>,
                       <<"/", "t", "e", "m", "p", "/">>,
                       <<"/", ".", "l", "o", "c", "a", "l", "/">>,
                       <<"/", ".", "v", "s", "c", "o", "d", "e", "/">>,
                       <<"/", "L", "i", "b", "r", "a", "r", "y", "/">>,
                       <<"/", "S", "y", "s", "t", "e", "m", "/">>,
                       <<"P", "r", "o", "g", "r", "a", "m", " ", "F", "i", "l", "e", "s">>,
                       <<"_", "_", "p", "y", "c", "a", "c", "h", "e", "_", "_">>} :
        Contains(path, pattern)

\* FileSystemWatcher::should_ignore_path
should_ignore_path(path) ==
    \E pattern \in {<<"_", "_", "p", "y", "c", "a", "c", "h", "e", "_", "_">>,
                       <<".", "p", "y", "c">>,
                       <<"/", ".", "c", "a", "c", "h", "e", "/">>,
                       <<"/", "t", "e", "m", "p", "/">>,
                       <<"/", "t", "m", "p", "/">>,
                       <<".", "s", "y", "n", "t", "a", "r", "i", "_", "p", "e", "r", "m", "i", "s", "s", "i", "o", "n", "_", "t", "e", "s", "t">>,
                       <<".", "s", "y", "n", "t", "a", "r", "i">>} :
        Contains(path, pattern)

\* what read_dir finds in a directory besides the files of the model
SubdirCount(dir) == IF dir = WX THEN 60 ELSE 0
HasBuildArtifacts(dir) == FALSE

\* FileSystemWatcher::determine_watch_strategy; the scan stops after 100
\* entries, more than any directory of the model has
determine_watch_strategy(path, fs) ==
    LET dir == Canonical(path)
        file_count == Cardinality({p \in fs : DirOf(p) = dir})
        dir_count == SubdirCount(dir)
    IN  IF file_count < FullMaxFiles /\ dir_count < FullMaxDirs THEN "Full"
        ELSE IF HasBuildArtifacts(dir) THEN "Selective"
        ELSE "Hybrid"

\* FileSystemWatcher::scan_directory_for_cache: the files under root_path that
\* are not ignored, spelled as read_dir spells them
scan_directory_for_cache(root_path, fs) ==
    {p \in fs : /\ \E n \in FileNames : p = Join(root_path, n)
                /\ ~should_ignore_path(p)}

\* an event type that does not consult the cache
event_type_by_existence(exists, known) ==
    IF exists THEN "modified" ELSE "deleted"

\* FileSystemWatcher::convert_debounced_event, the choice of event_type
event_type(exists, known) ==
    IF exists THEN (IF known THEN "modified" ELSE "created") ELSE "deleted"

\* FileSystemWatcher::convert_debounced_event, the cache afterwards
cache_after_event(known_files, path, exists) ==
    IF exists THEN known_files \cup {path} ELSE known_files \ {path}

\* FileSystemWatcher::clear_cache_for_path
clear_cache_for_path(known_files, root_path) ==
    {path \in known_files : ~starts_with(path, root_path)}

LogEntry(kind, path, what) == [kind |-> kind, path |-> path, what |-> what]

NoWatchRet == [op |-> None, path |-> <<>>, what |-> None, id |-> <<>>,
               stats |-> Nothing]

InitWatcher ==
    /\ watchers = {}
    /\ watched_paths = EmptyMap
    /\ debouncers = {}
    /\ KNOWN_FILES = {}
    /\ files = {}
    /\ pending = {}
    /\ wpc = "idle"
    /\ wcmd = Nothing
    /\ wret = NoWatchRet
    /\ wcalls = 0
    /\ wchanges = 0
    /\ wlog = <<>>

\* The watcher commands are modelled one at a time (wpc is the position of the
\* one in progress); file changes and the debouncer threads run between its steps.
\* a command returns to the frontend
WReturn(op, path, what, id) ==
    /\ wret' = [op |-> op, path |-> path, what |-> what, id |-> id,
                stats |-> Nothing]
    /\ wpc' = "idle"
    /\ wcmd' = Nothing

\* dropping a debouncer stops its thread; what it had not delivered is lost
Drop(dropped) ==
    /\ debouncers' = debouncers \ dropped
    /\ pending' = {ev \in pending : ev.debouncer \notin dropped}

\* start_file_watcher / start_watching up to the choice of the strategy; the
\* command in progress is kept with the number of changes made before it
StartWatching(path) ==
    /\ wpc = "idle"
    /\ wcalls < MaxWatchCalls
    /\ wcalls' = wcalls + 1
    /\ IF is_problematic_directory(path) \/ path \in DOMAIN watched_paths
       THEN WReturn("start", path, "Ok", path)
       ELSE /\ wpc' = IF determine_watch_strategy(path, files) = "Full"
                      THEN "populate" ELSE "watch"
            /\ wcmd' = <<path, wchanges>>
            /\ UNCHANGED wret
    /\ UNCHANGED <<watchers, watched_paths, debouncers, KNOWN_FILES, files,
                   pending, wchanges, wlog, nonWatcherVars>>

\* start_full_watching: populate_file_cache
PopulateFileCache ==
    /\ wpc = "populate"
    /\ KNOWN_FILES' = KNOWN_FILES \cup scan_directory_for_cache(wcmd[1], files)
    /\ wpc' = "watch"
    /\ UNCHANGED <<watchers, watched_paths, debouncers, files, pending, wcmd,
                   wret, wcalls, wchanges, wlog, nonWatcherVars>>

\* start_*_watching: new_debouncer and watch(); watch() can fail, and the
\* command then returns the error
Watch(ok) ==
    /\ wpc = "watch"
    /\ IF ok
       THEN /\ debouncers' = debouncers \cup {wcmd[1]}
            /\ wpc' = "store"
            /\ UNCHANGED <<wcmd, wret>>
       ELSE /\ WReturn("start", wcmd[1], "Err", <<>>)
            /\ UNCHANGED debouncers
    /\ UNCHANGED <<watchers, watched_paths, KNOWN_FILES, files, pending,
                   wcalls, wchanges, wlog, nonWatcherVars>>

\* start_*_watching: store_watcher and the return of the watcher id
StoreWatcher ==
    /\ wpc = "store"
    /\ watchers' = watchers \cup {wcmd[1]}
    /\ watched_paths' = Insert(watched_paths, wcmd[1], wcmd[1])
    /\ WReturn("start", wcmd[1], "Ok", wcmd[1])
    /\ UNCHANGED <<debouncers, KNOWN_FILES, files, pending, wcalls, wchanges,
                   wlog, nonWatcherVars>>

\* stop_file_watcher / stop_watching: the watchers map
StopWatching(watcher_id) ==
    /\ wpc = "idle"
    /\ wcalls < MaxWatchCalls
    /\ wcalls' = wcalls + 1
    /\ watchers' = watchers \ {watcher_id}
    /\ Drop(watchers \cap {watcher_id})
    /\ wpc' = "stop_paths"
    /\ wcmd' = Some(watcher_id)
    /\ UNCHANGED <<watched_paths, KNOWN_FILES, files, wret, wchanges, wlog,
                   nonWatcherVars>>

\* stop_watching: the watched_paths map and the cache
StopWatchingPaths ==
    /\ wpc = "stop_paths"
    /\ watched_paths' = Remove(watched_paths, wcmd[1])
    /\ KNOWN_FILES' = IF wcmd[1] \in DOMAIN watched_paths
                      THEN clear_cache_for_path(KNOWN_FILES, watched_paths[wcmd[1]])
                      ELSE KNOWN_FILES
    /\ WReturn("stop", wcmd[1], "Ok", wcmd[1])
    /\ UNCHANGED <<watchers, debouncers, files, pending, wcalls, wchanges,
                   wlog, nonWatcherVars>>

\* get_file_watcher_stats / get_watcher_stats: the sizes of the two maps, read
\* with both mutexes held; the command runs beside the one in progress
GetWatcherStats ==
    /\ wret' = [op |-> "get_file_watcher_stats", path |-> <<>>, what |-> "Ok",
                id |-> <<>>,
                stats |-> Some(<<Cardinality(watchers),
                                 Cardinality(DOMAIN watched_paths)>>)]
    /\ UNCHANGED <<watchers, watched_paths, debouncers, KNOWN_FILES, files,
                   pending, wpc, wcmd, wcalls, wchanges, wlog, nonWatcherVars>>

\* a file is created, rewritten or deleted; every debouncer that watches its
\* directory notes the path, spelled from its own root
FsChange(what, p) ==
    /\ wchanges < MaxChanges
    /\ wchanges' = wchanges + 1
    /\ CASE what = "create" -> p \notin files /\ files' = files \cup {p}
         [] what = "write"  -> p \in files /\ files' = files
         [] what = "delete" -> p \in files /\ files' = files \ {p}
    /\ pending' = pending \cup
                    {[debouncer |-> d, path |-> Join(d, NameOf(p))] :
                        d \in {x \in debouncers : Canonical(x) = DirOf(p)}}
    /\ wlog' = Append(wlog, LogEntry("change", p, what))
    /\ UNCHANGED <<watchers, watched_paths, debouncers, KNOWN_FILES, wpc, wcmd,
                   wret, wcalls, nonWatcherVars>>

\* handle_debounced_events for one event: convert_debounced_event, emit_event
HandleDebouncedEvent(ev) ==
    /\ ev \in pending
    /\ pending' = pending \ {ev}
    /\ IF should_ignore_path(ev.path)
       THEN UNCHANGED <<KNOWN_FILES, wlog>>
       ELSE /\ KNOWN_FILES' = cache_after_event(KNOWN_FILES, ev.path,
                                                ev.path \in files)
            /\ wlog' = Append(wlog,
                 LogEntry("event", ev.path,
                          event_type(ev.path \in files, ev.path \in KNOWN_FILES)))
    /\ UNCHANGED <<watchers, watched_paths, debouncers, files, wpc, wcmd, wret,
                   wcalls, wchanges, nonWatcherVars>>

NextWatcher ==
    \/ \E path \in RootPaths : StartWatching(path)
    \/ PopulateFileCache
    \/ \E ok \in BOOLEAN : Watch(ok)
    \/ StoreWatcher
    \/ \E id \in RootPaths : StopWatching(id)
    \/ StopWatchingPaths
    \/ GetWatcherStats
    \/ \E what \in {"create", "write", "delete"}, p \in FilePaths : FsChange(what, p)
    \/ \E ev \in pending : HandleDebouncedEvent(ev)

(***************************************************************************)
(* File-system watcher: properties                                         *)
(***************************************************************************)
\* this step is handle_debounced_events handling the event ev
Handles(ev) ==
    /\ ev \in pending
    /\ pending' = pending \ {ev}
    /\ debouncers' = debouncers
    /\ files' = files

\* the kinds of the events emitted for the changes create, write, delete
ScenarioChanges == <<"create", "write", "delete">>
ScenarioEvents == <<"created", "modified", "deleted">>

\* the log so far is n changes of the scenario on p, each followed by one event
ScenarioRan(p, n) ==
    /\ Len(wlog) >= 2 * n
    /\ \A i \in 1..n :
          /\ wlog[2 * i - 1] = LogEntry("change", p, ScenarioChanges[i])
          /\ wlog[2 * i].kind = "event"
          /\ wlog[2 * i].path = p

\* C6: a debounced change at a path that is not filtered is emitted as modified
\* if the path exists and is cached, as created if it exists and is not cached
\* (and is cached then), as deleted if it does not exist (and is evicted then);
\* and when one directory, empty so far, is watched and nothing else is asked
\* of the watcher, creating, rewriting and deleting a file in it, each change
\* handled before the next, is emitted as created, modified, deleted
C6_EventClassification ==
    /\ [][ \A ev \in pending : (Handles(ev) /\ ~should_ignore_path(ev.path)) =>
              /\ wlog' = Append(wlog, LogEntry("event", ev.path, wlog'[Len(wlog')].what))
              /\ (ev.path \in files /\ ev.path \in KNOWN_FILES) =>
                    /\ wlog'[Len(wlog')].what = "modified"
                    /\ KNOWN_FILES' = KNOWN_FILES
              /\ (ev.path \in files /\ ev.path \notin KNOWN_FILES) =>
                    /\ wlog'[Len(wlog')].what = "created"
                    /\ KNOWN_FILES' = KNOWN_FILES \cup {ev.path}
              /\ ev.path \notin files =>
                    /\ wlog'[Len(wlog')].what = "deleted"
                    /\ KNOWN_FILES' = KNOWN_FILES \ {ev.path}
         ]_vars
    /\ [](\A p \in FilePaths, n \in 1..3 :
            (wcalls = 1 /\ ScenarioRan(p, n)) => wlog[2 * n].what = ScenarioEvents[n])

\* one watcher was started on an empty directory; a file was created,
\* rewritten and deleted, and the three events were emitted
C6_Witness ==
    /\ wcalls = 1
    /\ wret.op = "start"
    /\ \E p \in FilePaths : ScenarioRan(p, 3)
    /\ Len(wlog) = 6

\* C7: no directory is watched under two ids, and start_file_watcher on a
\* directory that is watched returns the id it is watched under, however the
\* path is spelled
C7_StartIdempotent ==
    /\ \A a, b \in DOMAIN watched_paths :
          Canonical(watched_paths[a]) = Canonical(watched_paths[b]) => a = b
    /\ (wret.op = "start" /\ wret.what = "Ok") =>
          \A a \in DOMAIN watched_paths :
              Canonical(watched_paths[a]) = Canonical(wret.path) => wret.id = a

\* path lies beneath the directory root: it is root or a path inside it
Beneath(path, root) ==
    LET dir == Canonical(root)
    IN  \/ path = dir
        \/ starts_with(path, dir \o <<"/">>)

\* C8: when stop_file_watcher(id) removes the watcher id, the cache loses
\* exactly its entries beneath the root of id; every other entry stays
C8_StopEvictsBeneathRoot ==
    [][ (wpc = "stop_paths" /\ wpc' = "idle" /\ wcmd[1] \in DOMAIN watched_paths) =>
            KNOWN_FILES' = {path \in KNOWN_FILES :
                               ~Beneath(path, watched_paths[wcmd[1]])}
      ]_vars

\* the files found in the directory root, spelled from root, that the
\* watcher does not ignore
WatchedFiles(root) ==
    {Join(root, NameOf(p)) : p \in {f \in files : DirOf(f) = Canonical(root)}}
        \ {q \in {Join(root, n) : n \in FileNames} : should_ignore_path(q)}

\* C28: when start_file_watcher has stored a new watcher, under whichever
\* strategy, and no file changed while it ran, every file that was in the
\* directory is in the known-files cache
C28_StartPopulatesCache ==
    [][ (wpc = "store" /\ wpc' = "idle" /\ wcmd[2] = wchanges) =>
            WatchedFiles(wcmd[1]) \subseteq KNOWN_FILES'
      ]_vars

\* C39: get_file_watcher_stats reports the same count for the active
\* watchers and for the watched paths, whatever start_file_watcher and
\* stop_file_watcher calls run beside it
C39_StatsCountsEqual ==
    wret.op = "get_file_watcher_stats" => wret.stats[1][1] = wret.stats[1][2]

(***************************************************************************)
(* Path interner (filesystem/service.rs)                                   *)
(***************************************************************************)
\* the strings handed to intern_path
PathStrings == {"/a", "/b", "/c"}
\* a symbol is the position of its string in the interner
Symbols == 1..Cardinality(PathStrings)

\* an interner that never looks a string up
intern_always(strings, s) ==
    [strings |-> Append(strings, s), symbol |-> Len(strings) + 1]

\* StringInterner::get_or_intern
get_or_intern(strings, s) ==
    IF \E i \in 1..Len(strings) : strings[i] = s
    THEN [strings |-> strings,
          symbol |-> CHOOSE i \in 1..Len(strings) : strings[i] = s]
    ELSE [strings |-> Append(strings, s), symbol |-> Len(strings) + 1]

\* FilePathInterner::resolve_path on the reverse map
resolve_path(reverse, symbol) ==
    IF symbol \in DOMAIN reverse THEN Some(reverse[symbol]) ELSE Nothing

Unlocked == [w |-> None, r |-> {}]
\* RwLock::write and RwLock::read succeed
CanWrite(lock) == lock.w = None /\ lock.r = {}
CanRead(lock) == lock.w = None

\* an intern_path that lets go of the interner before it fills the reverse map
InternerReleasedEarly(lock, t) == Unlocked

\* intern_path: the write guard of the interner lives to the end of the call
InternerHeld(lock, t) == lock

NoInternRet == [op |-> None, s |-> None, symbol |-> 0, val |-> Nothing,
                unique |-> 0, reverse |-> 0]

InitIntern ==
    /\ interner = <<>>
    /\ reverse_map = EmptyMap
    /\ internerLock = Unlocked
    /\ reverseLock = Unlocked
    /\ ipc = [t \in Threads |-> "idle"]
    /\ icmd = [t \in Threads |-> Nothing]
    /\ iret = NoInternRet
    /\ handles = [s \in PathStrings |-> {}]

\* a thread calls intern_path(path)
InternCall(t, path) ==
    /\ ipc[t] = "idle"
    /\ ipc' = [ipc EXCEPT ![t] = "intern_lock"]
    /\ icmd' = [icmd EXCEPT ![t] = Some([path |-> path, symbol |-> 0])]
    /\ UNCHANGED <<interner, reverse_map, internerLock, reverseLock, iret,
                   handles, nonInternVars>>

\* intern_path: interner.write(), get_or_intern
InternGetOrIntern(t) ==
    /\ ipc[t] = "intern_lock"
    /\ CanWrite(internerLock)
    /\ LET r == get_or_intern(interner, icmd[t][1].path)
       IN  /\ interner' = r.strings
           /\ icmd' = [icmd EXCEPT ![t] = Some([path |-> icmd[t][1].path,
                                                symbol |-> r.symbol])]
    /\ internerLock' = InternerHeld([w |-> t, r |-> {}], t)
    /\ ipc' = [ipc EXCEPT ![t] = "intern_reverse"]
    /\ UNCHANGED <<reverse_map, reverseLock, iret, handles, nonInternVars>>

\* intern_path: reverse_map.write(), insert, return the symbol; both guards drop
InternReverse(t) ==
    /\ ipc[t] = "intern_reverse"
    /\ CanWrite(reverseLock)
    /\ reverse_map' = Insert(reverse_map, icmd[t][1].symbol, icmd[t][1].path)
    /\ internerLock' = IF internerLock.w = t THEN Unlocked ELSE internerLock
    /\ iret' = [NoInternRet EXCEPT !.op = "intern_path", !.s = icmd[t][1].path,
                                   !.symbol = icmd[t][1].symbol]
    /\ handles' = [handles EXCEPT ![icmd[t][1].path] = @ \cup {icmd[t][1].symbol}]
    /\ ipc' = [ipc EXCEPT ![t] = "idle"]
    /\ icmd' = [icmd EXCEPT ![t] = Nothing]
    /\ UNCHANGED <<interner, reverseLock, nonInternVars>>

\* resolve_path: reverse_map.read(), get, return
ResolvePath(t, symbol) ==
    /\ ipc[t] = "idle"
    /\ CanRead(reverseLock)
    /\ iret' = [NoInternRet EXCEPT !.op = "resolve_path", !.symbol = symbol,
                                   !.val = resolve_path(reverse_map, symbol)]
    /\ UNCHANGED <<interner, reverse_map, internerLock, reverseLock, ipc, icmd,
                   handles, nonInternVars>>

\* a thread calls memory_stats
StatsCall(t) ==
    /\ ipc[t] = "idle"
    /\ ipc' = [ipc EXCEPT ![t] = "stats_lock"]
    /\ UNCHANGED <<interner, reverse_map, internerLock, reverseLock, icmd, iret,
                   handles, nonInternVars>>

\* memory_stats: interner.read()
StatsReadInterner(t) ==
    /\ ipc[t] = "stats_lock"
    /\ CanRead(internerLock)
    /\ internerLock' = [internerLock EXCEPT !.r = @ \cup {t}]
    /\ ipc' = [ipc EXCEPT ![t] = "stats_reverse"]
    /\ UNCHANGED <<interner, reverse_map, reverseLock, icmd, iret, handles,
                   nonInternVars>>

\* memory_stats: reverse_map.read(), the two lengths, return; both guards drop
StatsReturn(t) ==
    /\ ipc[t] = "stats_reverse"
    /\ CanRead(reverseLock)
    /\ iret' = [NoInternRet EXCEPT !.op = "memory_stats",
                                   !.unique = Len(interner),
                                   !.reverse = Cardinality(DOMAIN reverse_map)]
    /\ internerLock' = [internerLock EXCEPT !.r = @ \ {t}]
    /\ ipc' = [ipc EXCEPT ![t] = "idle"]
    /\ UNCHANGED <<interner, reverse_map, reverseLock, icmd, handles,
                   nonInternVars>>

NextIntern ==
    \/ \E t \in Threads, s \in PathStrings : InternCall(t, s)
    \/ \E t \in Threads : InternGetOrIntern(t)
    \/ \E t \in Threads : InternReverse(t)
    \/ \E t \in Threads, h \in Symbols : ResolvePath(t, h)
    \/ \E t \in Threads : StatsCall(t)
    \/ \E t \in Threads : StatsReadInterner(t)
    \/ \E t \in Threads : StatsReturn(t)

\* C11: intern_path returns one and the same symbol for a string however often
\* it is called, different strings get different symbols, and resolve_path of a
\* symbol intern_path returned for s gives s back
C11_InternIdempotentInjective ==
    /\ \A s \in PathStrings : Cardinality(handles[s]) <= 1
    /\ \A s1, s2 \in PathStrings : s1 # s2 => handles[s1] \cap handles[s2] = {}
    /\ \A s \in PathStrings : \A h \in handles[s] :
          resolve_path(reverse_map, h) = Some(s)
    /\ (iret.op = "resolve_path" /\ iret.val # Nothing) =>
          iret.symbol \in handles[iret.val[1]]

\* every string was interned, one of them is being interned again, and a
\* symbol was resolved
C11_Witness ==
    /\ \A s \in PathStrings : handles[s] # {}
    /\ iret.op = "resolve_path"
    /\ iret.val # Nothing
    /\ \E t \in Threads : ipc[t] = "intern_reverse" /\ handles[icmd[t][1].path] # {}

\* C12: the two counts memory_stats returns are equal, also when it is called
\* while intern_path runs on another thread
C12_StatsCountsEqual ==
    iret.op = "memory_stats" => iret.unique = iret.reverse

\* memory_stats returned counts while another thread was inside intern_path
C12_Witness ==
    /\ iret.op = "memory_stats"
    /\ iret.unique >= 1
    /\ \E t \in Threads : ipc[t] = "intern_lock"

(***************************************************************************)
(* File commands                                                           *)
(***************************************************************************)
\* file_ops.rs, lines 10-12
MAX_EDITOR_FILE_SIZE == 64 * 1024 * 1024
MAX_SAFE_FILE_SIZE == 256 * 1024 * 1024
LARGE_FILE_WARNING == 1024 * 1024

\* the tree: /etc with a file p, /h with a file f
Root == <<"/">>
Etc == <<"/", "e", "t", "c">>
EtcP == Etc \o <<"/", "p">>
Home == <<"/", "h">>
HomeF == Home \o <<"/", "f">>
\* "/h/../etc/p"
Traversal == Home \o <<"/", ".", ".">> \o EtcP
FsNodes == {Root, Etc, EtcP, Home, HomeF}
\* the path strings the UI sends
UiPaths == {Etc, EtcP, HomeF, Traversal}
\* the paths at the leaves of the tree, as source and target of copy_file
\* and move_file
LeafPaths == {EtcP, HomeF, Traversal}

\* what a node of the tree holds; of a file's bytes: their number, whether a
\* NUL byte is among the first 8192, whether they are valid UTF-8
Absent == [kind |-> "absent", size |-> 0, nul |-> FALSE, utf8 |-> TRUE]
Directory == [kind |-> "dir", size |-> 0, nul |-> FALSE, utf8 |-> TRUE]
FileData(size, nul, utf8) ==
    [kind |-> "file", size |-> size, nul |-> nul, utf8 |-> utf8]

\* the content strings the UI sends: a String is valid UTF-8
FileContents == {FileData(1, FALSE, TRUE)}
\* the files other programs leave on the disk
ExternalFiles ==
    {FileData(1, TRUE, FALSE), FileData(1, FALSE, FALSE),
     FileData(MAX_EDITOR_FILE_SIZE + 1, FALSE, TRUE),
     FileData(MAX_SAFE_FILE_SIZE + 1, FALSE, TRUE),
     \* files of exactly the sizes the smart read compares with
     FileData(LARGE_FILE_WARNING, FALSE, TRUE),
     FileData(MAX_EDITOR_FILE_SIZE, FALSE, TRUE),
     FileData(MAX_SAFE_FILE_SIZE, FALSE, TRUE)}

\* Path::to_string_lossy of a path, as a string
RECURSIVE PathStr(_)
PathStr(p) == IF p = <<>> THEN "" ELSE Head(p) \o PathStr(Tail(p))

\* the place of the first separator of a string, or one past its end
NameEnd(s) ==
    CHOOSE i \in 1..(Len(s) + 1) :
        /\ i = Len(s) + 1 \/ s[i] = "/"
        /\ \A j \in 1..(i - 1) : s[j] # "/"

\* Path::components: the names between the separators, "." left out
RECURSIVE components(_)
components(s) ==
    IF s = <<>> THEN <<>>
    ELSE (IF SubSeq(s, 1, NameEnd(s) - 1) \in {<<>>, <<".">>}
          THEN <<>>
          ELSE <<SubSeq(s, 1, NameEnd(s) - 1)>>)
         \o components(SubSeq(s, NameEnd(s) + 1, Len(s)))

\* the path of a list of names
RECURSIVE join_all(_)
join_all(comps) ==
    IF comps = <<>> THEN <<>> ELSE <<"/">> \o Head(comps) \o join_all(Tail(comps))

to_path(comps) == IF comps = <<>> THEN Root ELSE join_all(comps)

\* all but the last of a list of names
Front(comps) == SubSeq(comps, 1, Len(comps) - 1)

\* Path::parent: the path without its last name
parent(path) ==
    IF components(path) = <<>> THEN Nothing
    ELSE Some(to_path(Front(components(path))))

\* the last name of a list of names, unless it is ".."
last_name(comps) ==
    IF comps = <<>> \/ comps[Len(comps)] = <<".", ".">> THEN Nothing
    ELSE Some(comps[Len(comps)])

\* Path::file_name
file_name(path) == last_name(components(path))

NodeKind(d, node) == IF node \in FsNodes THEN d[node].kind ELSE "absent"

\* the directory that holds a node
ParentNode(node) == IF node = Root THEN Root ELSE to_path(Front(components(node)))

\* path resolution by the operating system (the tree has no symbolic links):
\* the node a path names, whether it exists or not; Nothing when the path
\* goes through a file, or through ".." of a directory that does not exist
RECURSIVE walk(_, _, _)
walk(d, cur, comps) ==
    IF comps = <<>> THEN Some(cur)
    ELSE IF \/ Head(comps) = <<".", ".">> /\ NodeKind(d, cur) # "dir"
            \/ Head(comps) # <<".", ".">> /\ NodeKind(d, cur) = "file"
    THEN Nothing
    ELSE walk(d,
              IF Head(comps) = <<".", ".">> THEN ParentNode(cur)
              ELSE Join(cur, Head(comps)),
              Tail(comps))

locate(d, path) == walk(d, Root, components(path))

\* the kind of a located node: "absent" | "dir" | "file"
kind_of(d, n) == IF n = Nothing THEN "absent" ELSE NodeKind(d, n[1])

\* Path::exists, Path::is_dir
exists(d, path) == kind_of(d, locate(d, path)) # "absent"
is_dir(d, path) == kind_of(d, locate(d, path)) = "dir"

\* a located node if it exists
existing(d, n) == IF kind_of(d, n) = "absent" THEN Nothing ELSE n

\* Path::canonicalize: the node of an existing path
canonicalize(d, path) == existing(d, locate(d, path))

\* the nodes beneath a node
Below(node) == {n \in FsNodes : n # node /\ starts_with(n, Join(node, <<>>))}

\* the outcome of a file-system call
IoOk(d) == [ok |-> TRUE, disk |-> d, err |-> ""]
IoErr(d, e) == [ok |-> FALSE, disk |-> d, err |-> e]
ENOENT == "No such file or directory (os error 2)"
ENOTDIR == "Not a directory (os error 20)"
EISDIR == "Is a directory (os error 21)"
ENOTEMPTY == "Directory not empty (os error 39)"
EEXIST == "File exists (os error 17)"

\* a write to a located node
write_node(d, n, data) ==
    IF n = Nothing THEN IoErr(d, ENOTDIR)
    ELSE IF n[1] \notin FsNodes \/ NodeKind(d, ParentNode(n[1])) # "dir"
    THEN IoErr(d, ENOENT)
    ELSE IF NodeKind(d, n[1]) = "dir" THEN IoErr(d, EISDIR)
    ELSE IoOk([d EXCEPT ![n[1]] = data])

\* std::fs::write
fs_write(d, path, data) == write_node(d, locate(d, path), data)

\* a located node and the directories above it are made directories
make_dirs(d, n) ==
    IF n = Nothing THEN IoErr(d, ENOTDIR)
    ELSE IF n[1] \notin FsNodes THEN IoErr(d, ENOENT)
    ELSE IF \E a \in FsNodes : (a = n[1] \/ n[1] \in Below(a)) /\ d[a].kind = "file"
    THEN IoErr(d, EEXIST)
    ELSE IoOk([a \in FsNodes |->
                 IF a = n[1] \/ n[1] \in Below(a) THEN Directory ELSE d[a]])

\* std::fs::create_dir_all
create_dir_all(d, path) == make_dirs(d, locate(d, path))

\* std::fs::remove_dir_all
remove_dir_all(d, node) ==
    IoOk([a \in FsNodes |-> IF a = node \/ a \in Below(node) THEN Absent ELSE d[a]])

\* std::fs::remove_dir
remove_dir(d, node) ==
    IF \E a \in Below(node) : d[a].kind # "absent" THEN IoErr(d, ENOTEMPTY)
    ELSE IoOk([d EXCEPT ![node] = Absent])

\* std::fs::remove_file
remove_file(d, node) == IoOk([d EXCEPT ![node] = Absent])

\* a copy of a located file to a located node
copy_node(d, s, t) ==
    IF kind_of(d, s) # "file" THEN IoErr(d, ENOENT) ELSE write_node(d, t, d[s[1]])

\* std::fs::copy
fs_copy(d, source, target) == copy_node(d, locate(d, source), locate(d, target))

\* copy_dir_recursive of a directory that holds nothing, as the directories
\* at the leaves of the tree do
copy_dir_recursive(d, source, target) ==
    IF ~is_dir(d, source) THEN IoErr(d, "Source is not a directory")
    ELSE IF exists(d, target) THEN IoOk(d)
    ELSE create_dir_all(d, target)

\* a located leaf is moved to a located node
rename_node(d, s, t) ==
    IF s = Nothing \/ t = Nothing THEN IoErr(d, ENOTDIR)
    ELSE IF NodeKind(d, s[1]) = "absent" \/ t[1] \notin FsNodes
            \/ NodeKind(d, ParentNode(t[1])) # "dir"
    THEN IoErr(d, ENOENT)
    ELSE IoOk([d EXCEPT ![t[1]] = d[s[1]], ![s[1]] = Absent])

\* std::fs::rename of a file or an empty directory
fs_rename(d, source, target) == rename_node(d, locate(d, source), locate(d, target))

\* the gate's outcomes
GateOk(p) == [ok |-> TRUE, path |-> p, err |-> ""]
GateErr(e) == [ok |-> FALSE, path |-> <<>>, err |-> e]

\* the system directories the gate looks for
SensitivePatterns ==
    {<<"/", "e", "t", "c", "/">>,
     <<"/", "p", "r", "o", "c", "/">>,
     <<"/", "s", "y", "s", "/">>,
     <<"C", ":", "\\", "W", "i", "n", "d", "o", "w", "s", "\\">>,
     <<"C", ":", "\\", "S", "y", "s", "t", "e", "m", "3", "2", "\\">>}

\* validate_path_security, lines 24-45: c is the path canonicalized, p its
\* parent, cp the parent canonicalized, name its file name
canonical_path(c, p, cp, name) ==
    IF c # Nothing THEN GateOk(c[1])
    ELSE IF p = Nothing THEN GateErr("Invalid file path: no parent directory")
    ELSE IF cp = Nothing THEN GateErr("Parent directory is not accessible")
    ELSE IF name = Nothing THEN GateErr("Invalid file path")
    ELSE GateOk(Join(cp[1], name[1]))

\* validate_path_security, lines 49-60
block_system_directories(r) ==
    IF r.ok /\ \E pat \in SensitivePatterns : Contains(r.path, pat)
    THEN GateErr("Access to system directories is not allowed")
    ELSE r

\* Path::canonicalize of the parent, if there is one
canonicalize_parent(d, p) == IF p = Nothing THEN Nothing ELSE canonicalize(d, p[1])

\* validate_path_security
validate_path_security(d, path) ==
    IF Contains(path, <<".", ".">>)
    THEN GateErr("Path traversal not allowed: contains '..'")
    ELSE block_system_directories(
             canonical_path(canonicalize(d, path), parent(path),
                            canonicalize_parent(d, parent(path)), file_name(path)))

\* TauriResult::success, TauriResult::error
TauriResult_success(data) ==
    [shape |-> "envelope", success |-> TRUE, data |-> Some(data), error |-> Nothing]
TauriResult_error(message) ==
    [shape |-> "envelope", success |-> FALSE, data |-> Nothing, error |-> Some(message)]

\* what the UI receives of a command that returns Result<String, String>:
\* the string itself, resolved or rejected, and no envelope
Ok(s) == [shape |-> "bare", success |-> TRUE, data |-> Some(s), error |-> Nothing]
Err(s) == [shape |-> "bare", success |-> FALSE, data |-> Nothing, error |-> Some(s)]

\* AppError::filesystem_with_path
filesystem_with_path(code, message, path) ==
    [category |-> "Filesystem", code |-> code, message |-> message, path |-> path]

\* impl Display for AppError
Display(e) == "[" \o e.code \o "] " \o e.message

\* validate_path_access, called by validate_directory with "directory access"
validate_path_access(d, path, operation) ==
    IF ~exists(d, path)
    THEN Some(filesystem_with_path("PATH_NOT_FOUND",
                                   "Path does not exist for " \o operation, path))
    ELSE IF ~is_dir(d, path)
    THEN Some(filesystem_with_path("NOT_A_DIRECTORY", "Path is not a directory", path))
    ELSE Nothing

\* validate_directory, lines 243-251: e is what validate_path_access raised
not_a_directory(d, path, e) ==
    IF e # Nothing THEN e
    ELSE IF ~is_dir(d, path)
    THEN Some(filesystem_with_path("NOT_A_DIRECTORY", "Path is not a directory", path))
    ELSE Nothing

\* validate_directory: the error it raises, if any
validate_directory(d, path) ==
    not_a_directory(d, path, validate_path_access(d, path, "directory access"))

NoGate == [called |-> FALSE, ok |-> FALSE, path |-> <<>>]
Gate(g) == [called |-> TRUE, ok |-> g.ok, path |-> g.path]

NoFileRet ==
    [op |-> None, path |-> <<>>, gate |-> NoGate, touched |-> FALSE,
     changed |-> FALSE, raised |-> Nothing,
     shape |-> "envelope", success |-> FALSE, data |-> Nothing, error |-> Nothing,
     emitted |-> <<>>]

NoFileCmd == [op |-> None, path |-> <<>>, gate |-> NoGate, node |-> <<>>, size |-> 0]

InitFiles ==
    /\ disk = [n \in FsNodes |->
                 IF n \in {Root, Etc, Home} THEN Directory
                 ELSE IF n = EtcP THEN FileData(1, FALSE, TRUE)
                 ELSE Absent]
    /\ current_project = Nothing
    /\ fpc = "idle"
    /\ fcmd = NoFileCmd
    /\ fret = NoFileRet
    /\ fcalls = 0

\* a command returns: op and path name the call, gate is what the gate said,
\* touched says that the command went to the file system after or without
\* the gate, d is the tree it leaves, raised is the categorized error behind
\* a failure, result is what the UI receives, events the events the command
\* emitted to the frontend with app_handle.emit, in order
FReturnEmitting(op, path, gate, touched, d, raised, result, events) ==
    /\ fret' = [op |-> op, path |-> path, gate |-> gate, touched |-> touched,
                changed |-> d # disk, raised |-> raised,
                shape |-> result.shape, success |-> result.success,
                data |-> result.data, error |-> result.error,
                emitted |-> events]
    /\ disk' = d

\* a command that emits nothing returns
FReturn(op, path, gate, touched, d, raised, result) ==
    FReturnEmitting(op, path, gate, touched, d, raised, result, <<>>)

\* a command returns after a file-system call with the outcome r: wrap is
\* "envelope" or "bare", done the message of success, failed the prefix of
\* the message of failure
Wrapped(wrap, r, done, failed) ==
    IF wrap = "envelope"
    THEN IF r.ok THEN TauriResult_success(done) ELSE TauriResult_error(failed \o r.err)
    ELSE IF r.ok THEN Ok(done) ELSE Err(failed \o r.err)

IoReturn(op, path, gate, r, wrap, done, failed) ==
    FReturn(op, path, gate, TRUE, r.disk, Nothing, Wrapped(wrap, r, done, failed))

\* a file command is called
FileCall ==
    /\ fcalls < MaxFileCalls
    /\ fcalls' = fcalls + 1

\* another program writes the file /h/f
ExternalWrite(data) ==
    /\ disk[Home].kind = "dir"
    /\ disk[HomeF].kind # "dir"
    /\ disk' = [disk EXCEPT ![HomeF] = data]
    /\ UNCHANGED <<current_project, fpc, fcmd, fret, fcalls, nonFileVars>>

\* FileReadResult
FileReadResult(content, size, is_binary, is_too_large, should_use_hex_mode, warning) ==
    [content |-> content, size |-> size, is_binary |-> is_binary,
     is_too_large |-> is_too_large, should_use_hex_mode |-> should_use_hex_mode,
     warning |-> warning]

\* read_file, lines 166-176: the envelope it makes of the smart read's data
read_file_data(file_data) ==
    IF file_data.is_too_large THEN TauriResult_error("File too large to read")
    ELSE IF file_data.is_binary THEN TauriResult_error("Cannot read binary file as text")
    ELSE IF file_data.content # Nothing THEN TauriResult_success(file_data.content[1])
    ELSE TauriResult_error("No content available")

\* read_file: the envelope it makes of the smart read's
read_file(smart_result) ==
    IF smart_result.data = Nothing
    THEN TauriResult_error(smart_result.error[1])
    ELSE read_file_data(smart_result.data[1])

\* the envelope of the command op for a smart read's envelope
ReadOut(op, smart_result) ==
    IF op = "read_file" THEN read_file(smart_result) ELSE smart_result

\* a warning from 1 MiB on
warning_from_threshold(size) ==
    IF size >= LARGE_FILE_WARNING THEN Some("Large file. Some features may be slower.")
    ELSE Nothing

\* read_file_smart_impl, lines 142-146
warning_for(size) ==
    IF size > LARGE_FILE_WARNING THEN Some("Large file. Some features may be slower.")
    ELSE Nothing

\* a read returns result without a second read of the file
ReadReturn(op, path, g, touched, result) ==
    /\ FReturn(op, path, Gate(g), touched, disk, Nothing, ReadOut(op, result))
    /\ UNCHANGED <<fpc, fcmd>>

\* read_file_smart_impl, lines 91-133, for the metadata and the bytes file
ReadFileSmart_file(op, path, g, file) ==
    IF file.size > MAX_SAFE_FILE_SIZE
    THEN ReadReturn(op, path, g, TRUE, TauriResult_success(
             FileReadResult(Nothing, file.size, FALSE, TRUE, FALSE,
                            Some("File too large. Maximum supported size is 256 MB."))))
    ELSE IF file.size > MAX_EDITOR_FILE_SIZE
    THEN ReadReturn(op, path, g, TRUE, TauriResult_success(
             FileReadResult(Nothing, file.size, FALSE, FALSE, TRUE,
                            Some("Large file. Opening in read-only hex mode for performance."))))
    ELSE IF file.kind = "dir"
    THEN ReadReturn(op, path, g, TRUE,
                    TauriResult_error("Failed to read file: " \o EISDIR))
    ELSE IF file.nul
    THEN ReadReturn(op, path, g, TRUE, TauriResult_success(
             FileReadResult(Nothing, file.size, TRUE, FALSE, FALSE,
                            warning_for(file.size))))
    ELSE IF file.utf8
    THEN ReadReturn(op, path, g, TRUE, TauriResult_success(
             FileReadResult(Some(file), file.size, FALSE, FALSE, FALSE,
                            warning_for(file.size))))
    ELSE /\ fpc' = "reread"
         /\ fcmd' = [op |-> op, path |-> path, gate |-> Gate(g),
                     node |-> g.path, size |-> file.size]
         /\ UNCHANGED <<disk, fret>>

\* read_file_smart_impl, lines 78-89, for the gate's outcome g
ReadFileSmart_gated(op, path, g) ==
    IF ~g.ok
    THEN ReadReturn(op, path, g, FALSE,
                    TauriResult_error("Security validation failed: " \o g.err))
    ELSE IF NodeKind(disk, g.path) = "absent"
    THEN ReadReturn(op, path, g, TRUE,
                    TauriResult_error("Failed to read file metadata: " \o ENOENT))
    ELSE ReadFileSmart_file(op, path, g, disk[g.path])

\* read_file_smart_impl up to its second read of the file; op is
\* "read_file_smart" or "read_file", which is built on it
ReadFileSmart(op, path) ==
    /\ fpc = "idle"
    /\ FileCall
    /\ ReadFileSmart_gated(op, path, validate_path_security(disk, path))
    /\ UNCHANGED <<current_project, nonFileVars>>

\* the lossy conversion of what the second read finds at a node
lossy_content(file) ==
    IF file.kind = "file" THEN Some([file EXCEPT !.utf8 = TRUE]) ELSE Nothing

\* read_file_smart_impl from its second read on (lines 134-157): the bytes
\* were not valid UTF-8 and the file is read again for a lossy conversion
ReadFileSmartReread ==
    /\ fpc = "reread"
    /\ FReturn(fcmd.op, fcmd.path, fcmd.gate, TRUE, disk, Nothing,
               ReadOut(fcmd.op, TauriResult_success(
                   FileReadResult(lossy_content(disk[fcmd.node]), fcmd.size,
                                  FALSE, FALSE, FALSE, warning_for(fcmd.size)))))
    /\ fpc' = "idle"
    /\ fcmd' = NoFileCmd
    /\ UNCHANGED <<current_project, fcalls, nonFileVars>>

\* save_file_impl for the gate's outcome g
SaveFile_gated(path, content, g) ==
    IF ~g.ok
    THEN FReturn("save_file", path, Gate(g), FALSE, disk, Nothing,
                 TauriResult_error("Security validation failed: " \o g.err))
    ELSE IoReturn("save_file", path, Gate(g), fs_write(disk, g.path, content),
                  "envelope", "File saved successfully", "Failed to save file: ")

\* save_file_impl
SaveFile(path, content) ==
    /\ SaveFile_gated(path, content, validate_path_security(disk, path))
    /\ FileCall
    /\ UNCHANGED <<current_project, fpc, fcmd, nonFileVars>>

\* "create the parent directory if it is missing": p is the parent
make_parent(d, p) ==
    IF p # Nothing /\ ~exists(d, p[1]) THEN create_dir_all(d, p[1]) ELSE IoOk(d)

\* create_file_impl lines 210-220, copy_file 400-410, move_file 457-467
with_parent(d, path) == make_parent(d, parent(path))

\* Option::unwrap_or_default of the optional content
unwrap_or_default(content) ==
    IF content = Nothing THEN FileData(0, FALSE, TRUE) ELSE content[1]

\* create_file_impl, lines 222-238, after the parent was seen to: made
CreateFile_parent(path, content, made) ==
    IF ~made.ok
    THEN FReturn("create_file", path, NoGate, TRUE, disk, Nothing,
                 Err("Failed to create parent directories: " \o made.err))
    ELSE IF exists(made.disk, path)
    THEN FReturn("create_file", path, NoGate, TRUE, made.disk, Nothing,
                 Err("File already exists: " \o PathStr(path)))
    ELSE IoReturn("create_file", path, NoGate,
                  fs_write(made.disk, path, unwrap_or_default(content)),
                  "bare", "File created: " \o PathStr(path), "Failed to create file: ")

\* create_file_impl; content is the optional content
CreateFile(path, content) ==
    /\ CreateFile_parent(path, content, with_parent(disk, path))
    /\ FileCall
    /\ UNCHANGED <<current_project, fpc, fcmd, nonFileVars>>

\* FileSystemEvent, lines 267-275 of file_ops.rs, as app_handle.emit sends it
\* under the name event
Emit(event, kind, path, is_directory) ==
    [event |-> event, event_type |-> kind, path |-> path,
     is_directory |-> is_directory]

\* a delete_file that announces the deletion whether or not the removal
\* succeeded
deletion_events_eager(path, is_directory, r) ==
    <<Emit("file-system-change", "deleted", path, is_directory),
      Emit("file-deleted", "deleted", path, is_directory)>>

\* delete_file, the two app_handle.emit calls in the Ok arm of each removal
\* (lines 285-294, 308-317, 331-340); r is the removal's outcome
deletion_events(path, is_directory, r) ==
    IF r.ok
    THEN <<Emit("file-system-change", "deleted", path, is_directory),
           Emit("file-deleted", "deleted", path, is_directory)>>
    ELSE <<>>

\* delete_file returns after the removal with the outcome r
DeleteReturn(path, g, is_directory, r, done, failed) ==
    FReturnEmitting("delete_file", path, Gate(g), TRUE, r.disk, Nothing,
                    Wrapped("bare", r, done, failed),
                    deletion_events(path, is_directory, r))

\* delete_file, lines 260-358, for the gate's outcome g
DeleteFile_gated(path, force, g) ==
    IF ~g.ok
    THEN FReturn("delete_file", path, Gate(g), FALSE, disk, Nothing,
                 Err("Security validation failed: " \o g.err))
    ELSE IF NodeKind(disk, g.path) = "absent"
    THEN FReturn("delete_file", path, Gate(g), TRUE, disk, Nothing,
                 Err("File or directory does not exist: " \o PathStr(path)))
    ELSE IF NodeKind(disk, g.path) = "dir" /\ force
    THEN DeleteReturn(path, g, TRUE, remove_dir_all(disk, g.path),
                      "Directory deleted: " \o PathStr(path),
                      "Failed to delete directory: ")
    ELSE IF NodeKind(disk, g.path) = "dir"
    THEN DeleteReturn(path, g, TRUE, remove_dir(disk, g.path),
                      "Directory deleted: " \o PathStr(path),
                      "Failed to delete directory (may not be empty): ")
    ELSE DeleteReturn(path, g, FALSE, remove_file(disk, g.path),
                      "File deleted: " \o PathStr(path), "Failed to delete file: ")

\* delete_file
DeleteFile(path, force) ==
    /\ DeleteFile_gated(path, force, validate_path_security(disk, path))
    /\ FileCall
    /\ UNCHANGED <<current_project, fpc, fcmd, nonFileVars>>

\* copy_file, lines 400-435, after the target's parent was seen to: made
CopyFile_parent(source_path, target_path, made) ==
    IF ~made.ok
    THEN FReturn("copy_file", source_path, NoGate, TRUE, disk, Nothing,
                 TauriResult_error("Failed to create parent directories: " \o made.err))
    ELSE IF is_dir(made.disk, source_path)
    THEN IoReturn("copy_file", source_path, NoGate,
                  copy_dir_recursive(made.disk, source_path, target_path),
                  "envelope", "Directory copied to " \o PathStr(target_path),
                  "Failed to copy directory: ")
    ELSE IoReturn("copy_file", source_path, NoGate,
                  fs_copy(made.disk, source_path, target_path),
                  "envelope", "File copied to " \o PathStr(target_path),
                  "Failed to copy file: ")

\* copy_file
CopyFile(source_path, target_path) ==
    /\ IF ~exists(disk, source_path)
       THEN FReturn("copy_file", source_path, NoGate, TRUE, disk, Nothing,
                    TauriResult_error("Source file does not exist: "
                                      \o PathStr(source_path)))
       ELSE IF exists(disk, target_path)
       THEN FReturn("copy_file", source_path, NoGate, TRUE, disk, Nothing,
                    TauriResult_error("Target file already exists: "
                                      \o PathStr(target_path)))
       ELSE CopyFile_parent(source_path, target_path, with_parent(disk, target_path))
    /\ FileCall
    /\ UNCHANGED <<current_project, fpc, fcmd, nonFileVars>>

\* move_file, lines 457-479, after the target's parent was seen to: made
MoveFile_parent(source_path, target_path, made) ==
    IF ~made.ok
    THEN FReturn("move_file", source_path, NoGate, TRUE, disk, Nothing,
                 TauriResult_error("Failed to create parent directories: " \o made.err))
    ELSE IoReturn("move_file", source_path, NoGate,
                  fs_rename(made.disk, source_path, target_path),
                  "envelope", "File moved to " \o PathStr(target_path),
                  "Failed to move file: ")

\* move_file
MoveFile(source_path, target_path) ==
    /\ IF ~exists(disk, source_path)
       THEN FReturn("move_file", source_path, NoGate, TRUE, disk, Nothing,
                    TauriResult_error("Source file does not exist: "
                                      \o PathStr(source_path)))
       ELSE IF exists(disk, target_path)
       THEN FReturn("move_file", source_path, NoGate, TRUE, disk, Nothing,
                    TauriResult_error("Target file already exists: "
                                      \o PathStr(target_path)))
       ELSE MoveFile_parent(source_path, target_path, with_parent(disk, target_path))
    /\ FileCall
    /\ UNCHANGED <<current_project, fpc, fcmd, nonFileVars>>

\* create_dir_all (the command)
CreateDirAll(path) ==
    /\ IoReturn("create_dir_all", path, NoGate, create_dir_all(disk, path),
                "envelope", "Directory created successfully",
                "Failed to create directory: ")
    /\ FileCall
    /\ UNCHANGED <<current_project, fpc, fcmd, nonFileVars>>

\* create_directory
CreateDirectory(path) ==
    /\ IF exists(disk, path)
       THEN FReturn("create_directory", path, NoGate, TRUE, disk, Nothing,
                    Err("Directory already exists: " \o PathStr(path)))
       ELSE IoReturn("create_directory", path, NoGate, create_dir_all(disk, path),
                     "bare", "Directory created: " \o PathStr(path),
                     "Failed to create directory: ")
    /\ FileCall
    /\ UNCHANGED <<current_project, fpc, fcmd, nonFileVars>>

\* ProjectContext::new; what the analysis of the project's files adds to
\* the context is left out
ProjectContext(path) == [root_path |-> path]

\* open_project, lines 16-55, for the error e of validate_directory
OpenProject_validated(path, e) ==
    IF e # Nothing
    THEN /\ FReturn("open_project", path, NoGate, TRUE, disk, e,
                    TauriResult_error(e[1].message))
         /\ UNCHANGED current_project
    ELSE /\ FReturn("open_project", path, NoGate, TRUE, disk, Nothing,
                    TauriResult_success(ProjectContext(path)))
         /\ current_project' = Some(ProjectContext(path))

\* open_project
OpenProject(path) ==
    /\ OpenProject_validated(path, validate_directory(disk, path))
    /\ FileCall
    /\ UNCHANGED <<fpc, fcmd, nonFileVars>>

NextFiles ==
    \/ \E data \in ExternalFiles : ExternalWrite(data)
    \/ \E op \in {"read_file_smart", "read_file"}, path \in UiPaths :
           ReadFileSmart(op, path)
    \/ ReadFileSmartReread
    \/ \E path \in UiPaths, content \in FileContents : SaveFile(path, content)
    \/ \E path \in UiPaths, content \in {Nothing} \cup {Some(c) : c \in FileContents} :
           CreateFile(path, content)
    \/ \E path \in UiPaths, force \in BOOLEAN : DeleteFile(path, force)
    \/ \E source_path \in LeafPaths, target_path \in LeafPaths :
           CopyFile(source_path, target_path)
    \/ \E source_path \in LeafPaths, target_path \in LeafPaths :
           MoveFile(source_path, target_path)
    \/ \E path \in UiPaths : CreateDirAll(path)
    \/ \E path \in UiPaths : CreateDirectory(path)
    \/ \E path \in {Etc, HomeF} : OpenProject(path)

(***************************************************************************)
(* File commands: properties                                               *)
(***************************************************************************)
\* the commands that take a path string from the UI and read or change the
\* file system
PathCommands ==
    {"read_file_smart", "read_file", "save_file", "create_file", "delete_file",
     "copy_file", "move_file", "create_directory", "create_dir_all"}

\* C13: a command that takes a path from the UI has called the path-security
\* gate, and the gate has accepted the path, whenever the command went to the
\* file system
C13_GateBeforeFilesystem ==
    (fret.op \in PathCommands /\ fret.touched) => (fret.gate.called /\ fret.gate.ok)

\* the blocked system roots, each with the separator of its platform
BlockedRoots ==
    {[root |-> <<"/", "e", "t", "c">>, sep |-> "/"],
     [root |-> <<"/", "p", "r", "o", "c">>, sep |-> "/"],
     [root |-> <<"/", "s", "y", "s">>, sep |-> "/"],
     [root |-> <<"C", ":", "\\", "W", "i", "n", "d", "o", "w", "s">>, sep |-> "\\"],
     [root |-> <<"C", ":", "\\", "S", "y", "s", "t", "e", "m", "3", "2">>, sep |-> "\\"]}

\* a path is a blocked root or lies beneath it
AtOrBeneath(path, b) == path = b.root \/ starts_with(path, b.root \o <<b.sep>>)

HasParentDirComponent(path) ==
    \E i \in 1..Len(components(path)) : components(path)[i] = <<".", ".">>

\* C14: the canonical path of an input the gate accepts has no ".."
\* component, and is no blocked system root and lies beneath none
C14_AcceptedPathIsSafe ==
    (fret.gate.called /\ fret.gate.ok) =>
        /\ ~HasParentDirComponent(fret.gate.path)
        /\ \A b \in BlockedRoots : ~AtOrBeneath(fret.gate.path, b)

\* C15: save_file with a path that has a ".." segment returns success=false
\* with an error of the Validation category, and changes nothing on the disk
C15_TraversalSaveRejected ==
    (fret.op = "save_file" /\ HasParentDirComponent(fret.path)) =>
        /\ fret.shape = "envelope"
        /\ ~fret.success
        /\ fret.raised # Nothing
        /\ fret.raised # Nothing => fret.raised[1].category = "Validation"
        /\ ~fret.changed

\* C16: what a command returns is an envelope; with success=true it has data
\* and no error, with success=false it has an error and no data
C16_EnvelopeWellFormed ==
    fret.op # None =>
        /\ fret.shape = "envelope"
        /\ fret.success => (fret.data # Nothing /\ fret.error = Nothing)
        /\ ~fret.success => (fret.error # Nothing /\ fret.data = Nothing)

\* C17: when a command fails because a categorized error was raised, the
\* envelope's error string is "[" code "] " message of that error
C17_ErrorRendered ==
    (fret.op # None /\ fret.raised # Nothing) =>
        /\ ~fret.success
        /\ fret.error = Some(Display(fret.raised[1]))

\* the number of dispositions a smart read's result shows
Dispositions(r) ==
    (IF r.content # Nothing THEN 1 ELSE 0) + (IF r.is_binary THEN 1 ELSE 0)
    + (IF r.is_too_large THEN 1 ELSE 0) + (IF r.should_use_hex_mode THEN 1 ELSE 0)

\* C18: a successful read_file_smart result shows exactly one of: content,
\* is_binary, is_too_large, should_use_hex_mode
C18_ExactlyOneDisposition ==
    (fret.op = "read_file_smart" /\ fret.success) => Dispositions(fret.data[1]) = 1

\* C33: a smart read reports is_too_large exactly for a size above 256 MiB,
\* should_use_hex_mode exactly for a size above 64 MiB and not above 256 MiB,
\* and a warning exactly for a size above 1 MiB
C33_SizeThresholds ==
    (fret.op = "read_file_smart" /\ fret.success) =>
        LET r == fret.data[1]
        IN  /\ r.is_too_large <=> r.size > 256 * 1024 * 1024
            /\ r.should_use_hex_mode <=>
                   (r.size > 64 * 1024 * 1024 /\ r.size <= 256 * 1024 * 1024)
            /\ (r.warning # Nothing) <=> r.size > 1024 * 1024

\* a file of exactly 1 MiB was read, with its content and without a warning
C33_Witness ==
    /\ fret.op = "read_file_smart"
    /\ fret.success
    /\ fret.data[1].size = 1024 * 1024
    /\ fret.data[1].content # Nothing
    /\ fret.data[1].warning = Nothing

\* C37: create_directory(path) is not recursive: it fails and changes nothing
\* if path exists; otherwise it creates the one directory path names if the
\* parent of path is a directory, and fails and creates nothing if it is not
C37_CreateDirectoryNonRecursive ==
    [][ \A path \in UiPaths :
          (fcalls' = fcalls + 1 /\ fpc' = fpc /\ fret'.op = "create_directory"
                                /\ fret'.path = path) =>
              LET n == locate(disk, path)
              IN  IF exists(disk, path)
                  THEN ~fret'.success /\ disk' = disk
                  ELSE IF n # Nothing /\ NodeKind(disk, ParentNode(n[1])) = "dir"
                  THEN fret'.success /\ disk' = [disk EXCEPT ![n[1]] = Directory]
                  ELSE ~fret'.success /\ disk' = disk
      ]_vars

\* the names of the events a call emitted
EventNames(events) == [i \in 1..Len(events) |-> events[i].event]

C31_FailedRemoval ==
    /\ fret.op = "delete_file"
    /\ ~fret.success
    /\ fret.touched
    /\ fret.gate.ok

(***************************************************************************)
(* Chunked scan                                                            *)
(***************************************************************************)
\* what the walker yields for an entry: a file, a directory, a file of more
\* than 64 MB, or an error
EntryKinds == {"file", "empty", "dir", "huge", "err"}

\* metadata.len() of an entry: a file of one byte, a file of no bytes, a
\* directory (the size of its own block), a file of more than 64 MB
EntrySize(kind) ==
    CASE kind = "file" -> 1
      [] kind = "empty" -> 0
      [] kind = "dir" -> 4096
      [] OTHER -> MAX_EDITOR_FILE_SIZE + 1

\* FileInfoChunk of the i-th entry as scan_files_chunked builds it, lines
\* 83-91; its path stands for name, last_modified and extension as well
FileInfoChunk(i, size) ==
    [path |-> i, depth |-> 0, size |-> size, is_directory |-> FALSE]

\* scan_files_chunked, the loop of lines 40-98 from the i-th entry on
RECURSIVE scan_loop(_, _, _, _)
scan_loop(entries, i, all_files, scanned_count) ==
    IF i > Len(entries) \/ scanned_count > MAX_FILES_SCAN THEN all_files
    ELSE scan_loop(entries, i + 1,
                   IF entries[i] \in {"file", "empty"}
                   THEN Append(all_files, FileInfoChunk(i, EntrySize(entries[i])))
                   ELSE all_files,
                   IF entries[i] \in {"file", "empty"}
                   THEN scanned_count + 1 ELSE scanned_count)

Min(a, b) == IF a < b THEN a ELSE b

\* scan_files_chunked, lines 100-117, with a slice that runs one record
\* further
paginate_overlapping(all_files, offset, limit) ==
    [files |-> IF offset < Len(all_files)
               THEN SubSeq(all_files, offset + 1, Min(offset + limit + 1, Len(all_files)))
               ELSE <<>>,
     has_more |-> Min(offset + limit, Len(all_files)) < Len(all_files),
     total_files |-> Len(all_files)]

\* scan_files_chunked, lines 100-117: the slice and has_more (offset + limit
\* stays far below the width of usize)
paginate(all_files, offset, limit) ==
    [files |-> IF offset < Len(all_files)
               THEN SubSeq(all_files, offset + 1, Min(offset + limit, Len(all_files)))
               ELSE <<>>,
     has_more |-> Min(offset + limit, Len(all_files)) < Len(all_files),
     total_files |-> Len(all_files)]

\* scan_files_chunked for the entries of the directory
scan_files_chunked(entries, offset, limit) ==
    paginate(scan_loop(entries, 1, <<>>, 0), offset, limit)

\* a scan_everything_clean that reports the length the metadata gives for
\* directories too
clean_size_of_metadata(is_directory, len) == len

\* scan_everything_clean, line 237
clean_size(is_directory, len) == IF is_directory THEN 0 ELSE len

\* scan_everything_clean, lines 216-269, for a directory without
\* subdirectories of its own: a record for every entry whose metadata can be
\* read, in the order of the paths
RECURSIVE scan_recursive(_, _, _)
scan_recursive(entries, i, items) ==
    IF i > Len(entries) THEN items
    ELSE scan_recursive(entries, i + 1,
             IF entries[i] = "err" THEN items
             ELSE Append(items,
                         [path |-> i, depth |-> 0,
                          size |-> clean_size(entries[i] = "dir",
                                              EntrySize(entries[i])),
                          is_directory |-> entries[i] = "dir"]))

NoScanRet ==
    [offset |-> 0, limit |-> 0, files |-> <<>>, has_more |-> FALSE, total_files |-> 0]

InitScan ==
    /\ tree = <<>>
    /\ spc = "idle"
    /\ scan_limit = 0
    /\ scan_offset = 0
    /\ collected = <<>>
    /\ scanRet = NoScanRet
    /\ cleanRet = <<>>

\* the directory gets one more entry, before it is scanned
GrowTree(kind) ==
    /\ spc = "idle"
    /\ Len(tree) < MaxEntries
    /\ tree' = Append(tree, kind)
    /\ UNCHANGED <<spc, scan_limit, scan_offset, collected, scanRet, cleanRet,
                   nonScanVars>>

\* the UI receives the slice r of the request (offset, limit) and goes on
\* to the next offset while has_more is set
Receive(offset, limit, r) ==
    /\ scanRet' = [offset |-> offset, limit |-> limit, files |-> r.files,
                   has_more |-> r.has_more, total_files |-> r.total_files]
    /\ collected' = collected \o r.files
    /\ scan_limit' = limit
    /\ scan_offset' = offset + limit
    /\ spc' = IF r.has_more THEN "paging" ELSE "done"

\* scan_files_chunked(path, 0, limit): the first request of a paging
ScanFirst(limit) ==
    /\ spc = "idle"
    /\ Receive(0, limit, scan_files_chunked(tree, 0, limit))
    /\ UNCHANGED <<tree, cleanRet, nonScanVars>>

\* scan_files_chunked(path, offset, limit) at the next offset
ScanNext ==
    /\ spc = "paging"
    /\ Receive(scan_offset, scan_limit,
               scan_files_chunked(tree, scan_offset, scan_limit))
    /\ UNCHANGED <<tree, cleanRet, nonScanVars>>

\* scan_everything_clean(path) of the directory
ScanEverythingClean ==
    /\ spc = "idle"
    /\ cleanRet' = scan_recursive(tree, 1, <<>>)
    /\ UNCHANGED <<tree, spc, scan_limit, scan_offset, collected, scanRet,
                   nonScanVars>>

NextScan ==
    \/ ScanEverythingClean
    \/ \E kind \in EntryKinds : GrowTree(kind)
    \/ \E limit \in 1..MaxLimit : ScanFirst(limit)
    \/ ScanNext

(***************************************************************************)
(* Chunked scan: properties                                                *)
(***************************************************************************)
\* a limit no file list reaches
Unbounded == MaxEntries + MAX_FILES_SCAN + 1

\* the file list of one unbounded scan of the directory
OneScan == scan_files_chunked(tree, 0, Unbounded).files

\* C19: the slices at the offsets 0, limit, 2*limit, ... up to the first
\* without has_more are, concatenated, the file list of one unbounded scan;
\* has_more is set exactly when that list goes beyond offset + limit
C19_SlicesConcatenate ==
    /\ spc = "done" => collected = OneScan
    /\ spc # "idle" =>
           (scanRet.has_more <=> scanRet.offset + scanRet.limit < Len(OneScan))

C19_Witness ==
    /\ spc = "done"
    /\ scanRet.offset >= 2 * scanRet.limit
    /\ Len(collected) >= 3
    /\ \E i \in 1..Len(tree) : tree[i] # "file"

\* the records the scans have returned
ScanRecords ==
    {scanRet.files[i] : i \in 1..Len(scanRet.files)}
        \cup {cleanRet[i] : i \in 1..Len(cleanRet)}

\* C32 as stated: a record is a directory's if and only if its size is 0
C32_DirectoryIffSizeZero ==
    \A r \in ScanRecords : r.is_directory <=> r.size = 0

\* C32, amended: the record of a directory has size 0, and the record of a
\* file has the length of the file, which is 0 for an empty file
C32_DirectorySizeZero ==
    \A r \in ScanRecords :
        /\ r.is_directory => r.size = 0
        /\ ~r.is_directory => r.size = EntrySize(tree[r.path])

\* a scan_everything_clean has returned a directory and an empty file
C32_Witness ==
    /\ \E i \in 1..Len(cleanRet) : cleanRet[i].is_directory
    /\ \E i \in 1..Len(cleanRet) : ~cleanRet[i].is_directory /\ cleanRet[i].size = 0
    /\ \E i \in 1..Len(scanRet.files) : scanRet.files[i].size = 0

\* C20: one request collects no more than MAX_FILES_SCAN file records
\* before it paginates
C20_ScanCapped == scanRet.total_files <= MAX_FILES_SCAN

(***************************************************************************)
(* Project search: filesystem/commands/search.rs                           *)
(*                                                                         *)
(* A file is its text, a sequence of characters; a query is a sequence of  *)
(* characters too.  The file-type and directory filters are left empty, so *)
(* every file the walker yields is searched, and every file is readable    *)
(* text under 1MB.                                                         *)
(***************************************************************************)
NL == "\n"
WordChars == {"a", "A", "b"}
to_lowercase(c) == IF c = "A" THEN "a" ELSE c
is_whitespace(c) == c \in {" ", NL}

\* str::trim
RECURSIVE trim_start(_)
trim_start(s) ==
    IF s # <<>> /\ is_whitespace(Head(s)) THEN trim_start(Tail(s)) ELSE s
RECURSIVE trim_end(_)
trim_end(s) ==
    IF s # <<>> /\ is_whitespace(s[Len(s)])
    THEN trim_end(SubSeq(s, 1, Len(s) - 1))
    ELSE s
trim(s) == trim_end(trim_start(s))

\* str::lines: the text split at its line feeds; a final line feed ends the
\* last line and starts no empty one
RECURSIVE lines_from(_, _, _, _)
lines_from(s, i, cur, done) ==
    IF i > Len(s)
    THEN IF cur = <<>> THEN done ELSE Append(done, cur)
    ELSE lines_from(s, i + 1,
                    IF s[i] = NL THEN <<>> ELSE Append(cur, s[i]),
                    IF s[i] = NL THEN Append(done, cur) ELSE done)
lines(content) == lines_from(content, 1, <<>>, <<>>)

\* a compiled pattern is a sequence of atoms, a character that may be
\* starred, with the (?i) flag and the \b anchors build_search_regex adds
Atom(c, star) == [c |-> c, star |-> star]

\* regex::escape: every character of the query stands for itself
escape(query) == [i \in 1..Len(query) |-> Atom(query[i], FALSE)]

\* Regex::new on the syntax of the queries made here: a character, starred
\* or not; a star with nothing before it to repeat is a syntax error
RECURSIVE parse_from(_, _, _)
parse_from(query, i, atoms) ==
    IF i > Len(query) THEN Some(atoms)
    ELSE IF query[i] = "*" THEN Nothing
    ELSE IF i < Len(query) /\ query[i + 1] = "*"
         THEN parse_from(query, i + 2, Append(atoms, Atom(query[i], TRUE)))
         ELSE parse_from(query, i + 1, Append(atoms, Atom(query[i], FALSE)))
Regex_new(query) == parse_from(query, 1, <<>>)

RegexOk(atoms, ci, word) ==
    [ok |-> TRUE, regex |-> [atoms |-> atoms, ci |-> ci, word |-> word]]
RegexErr(message) == [ok |-> FALSE, error |-> message]

\* build_search_regex, lines 305-320: with use_regex the query is the
\* pattern and the other two options are not looked at
build_search_regex(query, options) ==
    IF options.use_regex
    THEN IF Regex_new(query) = Nothing
         THEN RegexErr("Invalid regex")
         ELSE RegexOk(Regex_new(query)[1], FALSE, FALSE)
    ELSE RegexOk(escape(query), ~options.case_sensitive, options.whole_word)

char_eq(re, c, d) == IF re.ci THEN to_lowercase(c) = to_lowercase(d) ELSE c = d

\* offsets are byte offsets into the line, from 0; the character after
\* offset i is line[i + 1]
is_word_at(line, j) == j >= 1 /\ j <= Len(line) /\ line[j] \in WordChars
word_boundary(line, i) == is_word_at(line, i) # is_word_at(line, i + 1)

\* how many times c repeats from offset i on
RECURSIVE run(_, _, _, _)
run(re, c, line, i) ==
    IF i < Len(line) /\ char_eq(re, c, line[i + 1])
    THEN 1 + run(re, c, line, i + 1)
    ELSE 0

Max(S) == CHOOSE x \in S : \A y \in S : y <= x

\* the repetitions of atom a that the line allows from offset i on
reps(re, a, line, i) ==
    IF a.star THEN 0..run(re, a.c, line, i)
    ELSE IF run(re, a.c, line, i) >= 1 THEN {1} ELSE {}

\* ends[n] is where the rest of the pattern ends after n repetitions, -1 for
\* no match: the most repetitions that leave the rest a match are taken
greedy(ends) ==
    IF \A n \in DOMAIN ends : ends[n] = -1 THEN -1
    ELSE ends[Max({n \in DOMAIN ends : ends[n] # -1})]

\* where the match of atoms k.. that starts at offset i ends, -1 for none
RECURSIVE match_from(_, _, _, _)
match_from(re, k, line, i) ==
    IF k > Len(re.atoms)
    THEN IF re.word /\ ~word_boundary(line, i) THEN -1 ELSE i
    ELSE greedy([n \in reps(re, re.atoms[k], line, i) |->
                    match_from(re, k + 1, line, i + n)])

match_at(re, line, i) ==
    IF re.word /\ ~word_boundary(line, i) THEN -1 ELSE match_from(re, 1, line, i)

\* the leftmost match at or after offset start, as <<start, end>>
find_at(re, line, start) ==
    IF start > Len(line) THEN Nothing
    ELSE LET hits == {i \in start..Len(line) : match_at(re, line, i) # -1}
             first == CHOOSE i \in hits : \A j \in hits : i <= j
         IN  IF hits = {} THEN Nothing
             ELSE Some(<<first, match_at(re, line, first)>>)

\* Regex::find_iter: successive non-overlapping matches; an empty match
\* that touches the end of the match before it is passed over
RECURSIVE find_iter(_, _, _, _)
find_iter(re, line, start, last_end) ==
    LET first == find_at(re, line, start)
        m == IF first # Nothing /\ first[1][1] = first[1][2]
                /\ first[1][2] = last_end
             THEN find_at(re, line, start + 1)
             ELSE first
    IN  IF m = Nothing THEN <<>>
        ELSE <<m[1]>> \o find_iter(re, line, m[1][2], m[1][2])

\* the SearchMatch of lines 337-344
SearchMatch(path, line_num, line, mat) ==
    [file |-> path, line |-> line_num + 1, column |-> mat[1] + 1,
     text |-> line, match_start |-> mat[1], match_end |-> mat[2]]

Take(s, n) == SubSeq(s, 1, Min(Len(s), n))

\* the same without the inner test of the cap
line_matches_uncapped(file_matches, path, line_num, line, regex) ==
    LET found == find_iter(regex, line, 0, -1)
    IN  file_matches
        \o [j \in 1..Len(found) |-> SearchMatch(path, line_num, line, found[j])]
\* lines 332-346: the matches of one line, pushed while the file has fewer
\* than MAX_MATCHES_PER_FILE
line_matches(file_matches, path, line_num, line, regex) ==
    LET found == find_iter(regex, line, 0, -1)
    IN  Take(file_matches
             \o [j \in 1..Len(found) |-> SearchMatch(path, line_num, line, found[j])],
             MAX_MATCHES_PER_FILE)

\* the loop of lines 327-347; line_num counts from 0
RECURSIVE content_loop(_, _, _, _, _)
content_loop(ls, line_num, regex, path, file_matches) ==
    IF line_num >= Len(ls) \/ Len(file_matches) >= MAX_MATCHES_PER_FILE
    THEN file_matches
    ELSE content_loop(ls, line_num + 1, regex, path,
                      line_matches(file_matches, path, line_num,
                                   ls[line_num + 1], regex))

\* search_in_content, lines 322-350
search_in_content(content, regex, path) ==
    content_loop(lines(content), 0, regex, path, <<>>)

SearchResult(path, file_matches) ==
    [file |-> path, matches |-> file_matches, total_matches |-> Len(file_matches)]

SearchData(results, total_matches, files_searched, total_files) ==
    [results |-> results, total_matches |-> total_matches,
     files_searched |-> files_searched, total_files |-> total_files]

push_result(results, path, file_matches) ==
    IF file_matches # <<>>
    THEN Append(results, SearchResult(path, file_matches))
    ELSE results

\* is_file_type_allowed, lines 365-394, and the same tests in
\* search_in_project, lines 129-142, for a file outside the excluded
\* directories: extension is Path::extension, an Option
is_file_type_allowed(extension, include_types, exclude_types) ==
    IF extension # Nothing
    THEN LET ext_with_dot == "." \o extension[1]
         IN  /\ ~(include_types # {} /\ ext_with_dot \notin include_types)
             /\ ext_with_dot \notin exclude_types
    ELSE TRUE

\* the file passes the filters of the options
Allowed(file, options) ==
    is_file_type_allowed(file.extension, options.include_file_types,
                         options.exclude_file_types)

\* the search loop of search_in_project, lines 109-171: a file the filters
\* stop is passed over; the ceiling is tested after a file's matches were added
RECURSIVE project_loop(_, _, _, _, _, _, _)
project_loop(fs, i, regex, options, results, total_matches, files_searched) ==
    IF i > Len(fs)
    THEN SearchData(results, total_matches, files_searched, Len(fs))
    ELSE LET file_matches == IF Allowed(fs[i], options)
                             THEN search_in_content(fs[i].content, regex, fs[i].path)
                             ELSE <<>>
             searched == files_searched + (IF Allowed(fs[i], options) THEN 1 ELSE 0)
             total == total_matches + Len(file_matches)
             pushed == push_result(results, fs[i].path, file_matches)
         IN  IF total > MAX_TOTAL_MATCHES
             THEN SearchData(pushed, total, searched, Len(fs))
             ELSE project_loop(fs, i + 1, regex, options, pushed, total, searched)

\* the loop of search_in_project_streaming, lines 236-283: max_results is
\* tested before a file and after it; total_files counts the files met
RECURSIVE streaming_loop(_, _, _, _, _, _, _, _)
streaming_loop(fs, i, regex, options, max_results, results, total_matches, files_searched) ==
    IF i > Len(fs) \/ total_matches >= max_results
    THEN SearchData(results, total_matches, files_searched, i - 1)
    ELSE LET file_matches == IF Allowed(fs[i], options)
                             THEN search_in_content(fs[i].content, regex, fs[i].path)
                             ELSE <<>>
         IN  streaming_loop(fs, i + 1, regex, options, max_results,
                            push_result(results, fs[i].path, file_matches),
                            total_matches + Len(file_matches),
                            files_searched
                                + (IF Allowed(fs[i], options) THEN 1 ELSE 0))

unwrap_or(opt, default) == IF opt = Nothing THEN default ELSE opt[1]

\* search_in_project, lines 59-186, given the compiled pattern
search_in_project(fs, query, options, project_valid, built) ==
    IF trim(query) = <<>>
    THEN TauriResult_error("Search query cannot be empty")
    ELSE IF ~project_valid THEN TauriResult_error("Invalid project path")
    ELSE IF ~built.ok THEN Err(built.error)
    ELSE TauriResult_success(project_loop(fs, 1, built.regex, options, <<>>, 0, 0))

\* search_in_project_streaming, lines 190-301
search_in_project_streaming(fs, query, options, project_valid, built, max_results) ==
    IF trim(query) = <<>> \/ Len(trim(query)) < 2
    THEN TauriResult_error("Search query must be at least 2 characters")
    ELSE IF ~project_valid THEN TauriResult_error("Invalid project path")
    ELSE IF ~built.ok THEN Err(built.error)
    ELSE TauriResult_success(
             streaming_loop(fs, 1, built.regex, options,
                            unwrap_or(max_results, DEFAULT_MAX_RESULTS),
                            <<>>, 0, 0))

\* the texts of the project's files
FileTexts ==
    { <<"a", "a">>,
      <<"a", NL, "A", "b">>,
      <<"b", NL, NL>>,
      <<"a", "*", " ", "a">> }

\* what the UI searches for
Queries ==
    { <<>>, <<" ">>, <<"a">>, <<"a", "*">>, <<"*">>, <<"a", "b">> }

\* the files of the project: the texts above in files named *.rs, and the
\* first of them in a file named *.md and in one whose name has no extension
ProjectFiles ==
    [content : FileTexts, extension : {Some("rs")}]
        \cup [content : {<<"a", "a">>}, extension : {Some("md"), Nothing}]

SearchOptions ==
    [case_sensitive : BOOLEAN, whole_word : BOOLEAN, use_regex : BOOLEAN,
     include_file_types : {{}, {".rs"}}, exclude_file_types : {{}}]
MaxResults == {Nothing, Some(1)}

NoSearchRet ==
    [op |-> None, query |-> <<>>, options |-> Nothing, max_results |-> Nothing,
     raised |-> Nothing, searched |-> 0, result |-> Nothing]

InitSearch ==
    /\ corpus = <<>>
    /\ searchRet = NoSearchRet
    /\ scalls = 0

\* what a search leaves: result is what the UI receives, searched the number
\* of files the call read, raised the categorized error behind a failure
SReturn(op, query, options, max_results, result) ==
    /\ searchRet' = [op |-> op, query |-> query, options |-> Some(options),
                     max_results |-> max_results, raised |-> Nothing,
                     searched |-> IF result.success
                                  THEN result.data[1].files_searched ELSE 0,
                     result |-> Some(result)]
    /\ scalls' = scalls + 1
    /\ UNCHANGED <<corpus, nonSearchVars>>

\* the environment: the project gets one more file
AddFile(file) ==
    /\ Len(corpus) < MaxSearchFiles
    /\ corpus' = Append(corpus, [path |-> Len(corpus) + 1, content |-> file.content,
                                 extension |-> file.extension])
    /\ UNCHANGED <<searchRet, scalls, nonSearchVars>>

SearchInProject(query, options, project_valid) ==
    /\ scalls < MaxSearches
    /\ SReturn("search_in_project", query, options, Nothing,
               search_in_project(corpus, query, options, project_valid,
                                 build_search_regex(query, options)))

SearchInProjectStreaming(query, options, project_valid, max_results) ==
    /\ scalls < MaxSearches
    /\ SReturn("search_in_project_streaming", query, options, max_results,
               search_in_project_streaming(corpus, query, options, project_valid,
                                           build_search_regex(query, options),
                                           max_results))

NextSearch ==
    \/ \E file \in ProjectFiles : AddFile(file)
    \/ \E query \in Queries, options \in SearchOptions, project_valid \in BOOLEAN :
           SearchInProject(query, options, project_valid)
    \/ \E query \in Queries, options \in SearchOptions, project_valid \in BOOLEAN,
          max_results \in MaxResults :
           SearchInProjectStreaming(query, options, project_valid, max_results)

(***************************************************************************)
(* Properties of the project search                                        *)
(***************************************************************************)
\* the results of the last search, when it returned any
Searched == searchRet.op # None /\ searchRet.result[1].success
SearchResults == searchRet.result[1].data[1].results
TotalMatches == searchRet.result[1].data[1].total_matches
SearchCeiling ==
    IF searchRet.op = "search_in_project" THEN MAX_TOTAL_MATCHES
    ELSE unwrap_or(searchRet.max_results, DEFAULT_MAX_RESULTS)

\* C21: no file's result has more than MAX_MATCHES_PER_FILE matches, and the
\* matches of one response total no more than the command's ceiling: 10,000
\* for search_in_project, max_results for search_in_project_streaming
C21_MatchesCapped ==
    Searched =>
        /\ \A r \in 1..Len(SearchResults) :
               Len(SearchResults[r].matches) <= MAX_MATCHES_PER_FILE
        /\ TotalMatches <= SearchCeiling

\* C22: a query that is empty or one character long is rejected by both
\* commands with an error of the Validation category, and no file is read
C22_ShortQueryRejected ==
    (searchRet.op # None /\ Len(trim(searchRet.query)) < 2) =>
        /\ ~searchRet.result[1].success
        /\ searchRet.searched = 0
        /\ searchRet.raised # Nothing
        /\ searchRet.raised # Nothing => searchRet.raised[1].category = "Validation"

\* the file has a dotted extension that is in the list
ExtensionListed(file, types) ==
    file.extension # Nothing /\ ("." \o file.extension[1]) \in types

\* C36: when include_file_types is not empty, every file that is searched
\* has a dotted extension the list contains: a file of another extension or
\* of none is neither counted as searched nor among the results
C36_IncludeFilter ==
    (Searched /\ searchRet.options[1].include_file_types # {}) =>
        LET types == searchRet.options[1].include_file_types
        IN  /\ \A r \in 1..Len(SearchResults) :
                   ExtensionListed(corpus[SearchResults[r].file], types)
            /\ searchRet.searched
                   <= Cardinality({i \in 1..Len(corpus) :
                                      ExtensionListed(corpus[i], types)})

\* C23: every match returned has match_end > match_start, line >= 1,
\* column >= 1 and match_end within the text of its line
C23_MatchWellFormed ==
    Searched =>
        \A r \in 1..Len(SearchResults) :
            \A k \in 1..Len(SearchResults[r].matches) :
                LET m == SearchResults[r].matches[k]
                IN  /\ m.match_end > m.match_start
                    /\ m.line >= 1
                    /\ m.column >= 1
                    /\ m.match_end <= Len(m.text)

(***************************************************************************)
(* Application state: AppState::initialize and AppState::get_stats         *)
(* (core/state.rs).  The calls are made one at a time.                     *)
(***************************************************************************)
\* the records initialize inserts; of an AiProvider the fields the state
\* kernel above keeps
ClaudeProvider ==
    [id |-> "claude", name |-> "Claude 3.5 Sonnet", is_available |-> TRUE]
Gpt4Provider ==
    [id |-> "gpt4", name |-> "GPT-4 Turbo", is_available |-> TRUE]

\* an initialize that inserts the default records whatever the map holds
initialize_unconditional(providers) ==
    Insert(Insert(providers, "claude", ClaudeProvider), "gpt4", Gpt4Provider)

\* AppState::initialize, lines 77-107: the provider map afterwards
initialize(providers) ==
    IF DOMAIN providers = {}
    THEN Insert(Insert(providers, "claude", ClaudeProvider), "gpt4", Gpt4Provider)
    ELSE providers

\* serde_json::Value::Number and serde_json::Value::Bool
Number(n) == [type |-> "Number", number |-> n]
Bool(b) == [type |-> "Bool", bool |-> b]

\* AppState::get_stats, lines 224-237: the map it returns
get_stats(chats, providers, preferences) ==
    [chat_sessions |-> Number(Cardinality(DOMAIN chats)),
     ai_providers |-> Number(Cardinality(DOMAIN providers)),
     user_preferences |-> Number(Cardinality(DOMAIN preferences)),
     initialized |-> Bool(TRUE)]

PrefKeys == {"theme", "auto_save"}
PrefValues == {"dark", "light"}

\* at: how many calls of the state kernel had returned when the call was made
NoAppRet == [op |-> None, stats |-> Nothing, at |-> 0]

InitApp ==
    /\ user_preferences = EmptyMap
    /\ appRet = NoAppRet
    /\ appcalls = 0

\* what an AppState call leaves alone besides the fields named with it
appFrame == <<ptyVars, stpc, sttmp, history, chatVars, watcherVars, internVars,
              disk, fpc, fcmd, fret, fcalls, scanVars, searchVars, cacheVars,
                  lockVars>>

AppCall(op, stats) ==
    /\ appcalls < MaxAppCalls
    /\ appcalls' = appcalls + 1
    /\ appRet' = [op |-> op, stats |-> stats, at |-> Len(history)]
    /\ UNCHANGED appFrame

\* AppState::initialize
Initialize ==
    /\ AppCall("initialize", Nothing)
    /\ ai_providers' = initialize(ai_providers)
    /\ UNCHANGED <<chat_sessions, user_preferences, current_project>>

\* AppState::get_stats
GetStats ==
    /\ AppCall("get_stats",
               Some(get_stats(chat_sessions, ai_providers, user_preferences)))
    /\ UNCHANGED <<ai_providers, chat_sessions, user_preferences, current_project>>

\* AppState::set_preference
SetPreference(key, value) ==
    /\ AppCall("set_preference", Nothing)
    /\ user_preferences' = Insert(user_preferences, key, value)
    /\ UNCHANGED <<ai_providers, chat_sessions, current_project>>

\* AppState::set_current_project
SetCurrentProject(project) ==
    /\ AppCall("set_current_project", Nothing)
    /\ current_project' = Some(project)
    /\ UNCHANGED <<ai_providers, chat_sessions, user_preferences>>

\* AppState::clear_current_project
ClearCurrentProject ==
    /\ AppCall("clear_current_project", Nothing)
    /\ current_project' = Nothing
    /\ UNCHANGED <<ai_providers, chat_sessions, user_preferences>>

NextApp ==
    \/ Initialize
    \/ GetStats
    \/ \E key \in PrefKeys, value \in PrefValues : SetPreference(key, value)
    \/ SetCurrentProject(ProjectContext(Home))
    \/ ClearCurrentProject
    \/ \E id \in ProviderIds : RemoveAiProvider("t1", id)
    \/ \E item \in Providers : UpdateAiProvider("t1", item)
    \/ \E item \in ChatItems : AddChatSession("t1", item)

(***************************************************************************)
(* Application state: properties                                           *)
(***************************************************************************)
\* the state as AppState::new leaves it
Fresh ==
    /\ DOMAIN ai_providers = {}
    /\ DOMAIN chat_sessions = {}
    /\ DOMAIN user_preferences = {}
    /\ current_project = Nothing

\* this step is a call of op that returns
AppStep(op) == appcalls' = appcalls + 1 /\ appRet'.op = op

\* C29: initialize on a fresh state leaves three providers in the provider
\* map, Claude and GPT-4 among them, and the baseline preferences in the
\* preferences map
C29_InitializeSeeds ==
    [][ (Fresh /\ AppStep("initialize")) =>
            /\ Cardinality(DOMAIN ai_providers') = 3
            /\ {"claude", "gpt4"} \subseteq DOMAIN ai_providers'
            /\ DOMAIN user_preferences' # {}
      ]_vars

\* C30: the map get_stats returns has the sizes of the three collections and
\* a boolean that tells whether a current project is set
C30_StatsContents ==
    [][ AppStep("get_stats") =>
            LET stats == appRet'.stats[1]
            IN  /\ stats.chat_sessions = Number(Cardinality(DOMAIN chat_sessions))
                /\ stats.ai_providers = Number(Cardinality(DOMAIN ai_providers))
                /\ stats.user_preferences
                       = Number(Cardinality(DOMAIN user_preferences))
                /\ \E k \in DOMAIN stats :
                       /\ stats[k].type = "Bool"
                       /\ stats[k].bool = (current_project # Nothing)
      ]_vars

\* C34: initialize is idempotent: it leaves a provider map that is not empty,
\* and on a provider map that is not empty it changes nothing of the state,
\* so a second initialize leaves the state of the first and no later
\* initialize duplicates or overwrites a provider record that is present
C34_InitializeIdempotent ==
    [][ AppStep("initialize") =>
            /\ DOMAIN ai_providers' # {}
            /\ <<chat_sessions', user_preferences', current_project'>>
                   = <<chat_sessions, user_preferences, current_project>>
            /\ DOMAIN ai_providers # {} => ai_providers' = ai_providers
      ]_vars

\* initialize was the last call, made when a provider record had been
\* replaced by one that is not a default record, and the record is still there
C34_Witness ==
    /\ appRet.op = "initialize"
    /\ appRet.at = Len(history)
    /\ Len(history) >= 1
    /\ history[Len(history)].call.op = "update_ai_provider"
    /\ "claude" \in DOMAIN ai_providers
    /\ ai_providers["claude"] # ClaudeProvider

(***************************************************************************)
(* The scan that populates the known-files cache                           *)
(* (FileSystemWatcher::populate_file_cache, scan_directory_for_cache),     *)
(* step by step: one step per entry of a directory.  The cache is kept by  *)
(* its size; what read_dir yields is the environment's choice.             *)
(***************************************************************************)
InitCacheScan ==
    /\ known_files_len = 0
    /\ scan_stack = <<>>
    /\ cache_scans = 0

\* scan_directory_for_cache, lines 257-260: the call returns at once, or
\* starts to read the directory
enter_directory(stack, depth, len) ==
    IF depth > DEPTH_GUARD \/ len > KNOWN_FILES_LIMIT
    THEN stack
    ELSE Append(stack, 0)

\* the depth of the innermost open call
scan_depth == Len(scan_stack) - 1

\* the innermost open call takes one more entry
taken_one_more ==
    [scan_stack EXCEPT ![Len(scan_stack)] = scan_stack[Len(scan_stack)] + 1]

\* the innermost open call can take another entry: take(1000)
CanTake ==
    /\ scan_stack # <<>>
    /\ scan_stack[Len(scan_stack)] < ENTRIES_PER_DIR

\* populate_file_cache: the scan of the root, at depth 0
PopulateFileCacheScan ==
    /\ scan_stack = <<>>
    /\ cache_scans < MaxCacheScans
    /\ cache_scans' = cache_scans + 1
    /\ scan_stack' = enter_directory(<<>>, 0, known_files_len)
    /\ UNCHANGED <<known_files_len, nonCacheVars>>

\* the entry is a file: known_files.insert; a path the cache holds already
\* (new = FALSE) does not add to it
CacheScanFile(new) ==
    /\ CanTake
    /\ ~new => known_files_len > 0
    /\ scan_stack' = taken_one_more
    /\ known_files_len' = known_files_len + (IF new THEN 1 ELSE 0)
    /\ UNCHANGED <<cache_scans, nonCacheVars>>

\* the entry is a directory: the recursive call, if depth < 5
CacheScanDir ==
    /\ CanTake
    /\ scan_stack' = IF scan_depth < RECURSE_BELOW_DEPTH
                     THEN enter_directory(taken_one_more, scan_depth + 1,
                                          known_files_len)
                     ELSE taken_one_more
    /\ UNCHANGED <<known_files_len, cache_scans, nonCacheVars>>

\* the entry is ignored, or is neither a file nor a directory
CacheScanSkip ==
    /\ CanTake
    /\ scan_stack' = taken_one_more
    /\ UNCHANGED <<known_files_len, cache_scans, nonCacheVars>>

\* the directory has no more entries, or 1000 were taken: the call returns
CacheScanReturn ==
    /\ scan_stack # <<>>
    /\ scan_stack' = SubSeq(scan_stack, 1, Len(scan_stack) - 1)
    /\ UNCHANGED <<known_files_len, cache_scans, nonCacheVars>>

NextCacheScan ==
    \/ PopulateFileCacheScan
    \/ \E new \in BOOLEAN : CacheScanFile(new)
    \/ CacheScanDir
    \/ CacheScanSkip
    \/ CacheScanReturn

(***************************************************************************)
(* Known-files cache scan: properties                                      *)
(***************************************************************************)
\* C35: a populating scan never leaves more entries in the known-files cache
\* than the limit (10,000 in the source)
C35_CacheBounded ==
    (cache_scans > 0 /\ scan_stack = <<>>) => known_files_len <= KNOWN_FILES_LIMIT

(***************************************************************************)
(* Lock acquisitions.  Every function that takes a Mutex or an RwLock is   *)
(* the sequence of its acquisitions and releases (a guard is released      *)
(* where it goes out of scope); what the function does under the locks is  *)
(* modelled in the sections above.  The session locks are those of one     *)
(* session.                                                                *)
(***************************************************************************)
LockThreads == Threads \cup {"t3"}

Locks ==
    {"sessions", "writer", "output_receiver", "pty", "last_activity",
     "output_sender", "GLOBAL_WATCHER", "watchers", "watched_paths",
     "KNOWN_FILES", "interner", "reverse_map"}

\* Mutex::lock and RwLock::write; RwLock::read; the drop of the guard
Lock(l) == [step |-> "acquire", lock |-> l, mode |-> "write"]
ReadLock(l) == [step |-> "acquire", lock |-> l, mode |-> "read"]
Unlock(l) == [step |-> "release", lock |-> l, mode |-> "write"]

\* a store_watcher that locks the two maps in the other order
store_watcher_paths_first ==
    <<Lock("watched_paths"), Lock("watchers"),
      Unlock("watchers"), Unlock("watched_paths")>>

\* FileSystemWatcher::store_watcher
store_watcher_locks ==
    <<Lock("watchers"), Lock("watched_paths"),
      Unlock("watched_paths"), Unlock("watchers")>>

LockedFunctions ==
    {"create_session", "send_input", "read_output", "read_output_empty",
     "resize_session", "close_session", "get_session_info", "reader_thread",
     "start_file_watcher", "stop_file_watcher", "get_file_watcher_stats",
     "get_watched_paths", "convert_debounced_event",
     "intern_path", "resolve_path", "memory_stats"}

\* the acquisitions and releases of each function, in program order
LockProgram(f) ==
    CASE f = "create_session" -> <<Lock("sessions"), Unlock("sessions")>>
      [] f = "send_input" ->
            <<Lock("sessions"), Lock("writer"), Lock("last_activity"),
              Unlock("last_activity"), Unlock("writer"), Unlock("sessions")>>
      [] f = "read_output" ->
            <<Lock("sessions"), Lock("output_receiver"), Lock("last_activity"),
              Unlock("last_activity"), Unlock("output_receiver"),
              Unlock("sessions")>>
      [] f = "read_output_empty" ->
            <<Lock("sessions"), Lock("output_receiver"),
              Unlock("output_receiver"), Unlock("sessions")>>
      [] f = "resize_session" ->
            <<Lock("sessions"), Lock("pty"), Unlock("pty"), Unlock("sessions")>>
      [] f = "close_session" -> <<Lock("sessions"), Unlock("sessions")>>
      [] f = "get_session_info" ->
            <<Lock("sessions"), Lock("last_activity"),
              Unlock("last_activity"), Unlock("sessions")>>
      [] f = "reader_thread" -> <<Lock("output_sender"), Unlock("output_sender")>>
      [] f = "start_file_watcher" ->
            <<Lock("GLOBAL_WATCHER"), Unlock("GLOBAL_WATCHER"),
              Lock("watched_paths"), Unlock("watched_paths"),
              Lock("KNOWN_FILES"), Unlock("KNOWN_FILES")>>
                \o store_watcher_locks
      [] f = "stop_file_watcher" ->
            <<Lock("GLOBAL_WATCHER"), Unlock("GLOBAL_WATCHER"),
              Lock("watchers"), Unlock("watchers"),
              Lock("watched_paths"), Lock("KNOWN_FILES"),
              Unlock("KNOWN_FILES"), Unlock("watched_paths")>>
      [] f = "get_file_watcher_stats" ->
            <<Lock("GLOBAL_WATCHER"), Lock("watchers"), Lock("watched_paths"),
              Unlock("watched_paths"), Unlock("watchers"),
              Unlock("GLOBAL_WATCHER")>>
      [] f = "get_watched_paths" ->
            <<Lock("GLOBAL_WATCHER"), Lock("watched_paths"),
              Unlock("watched_paths"), Unlock("GLOBAL_WATCHER")>>
      [] f = "convert_debounced_event" ->
            <<Lock("KNOWN_FILES"), Unlock("KNOWN_FILES")>>
      [] f = "intern_path" ->
            <<Lock("interner"), Lock("reverse_map"),
              Unlock("reverse_map"), Unlock("interner")>>
      [] f = "resolve_path" -> <<ReadLock("reverse_map"), Unlock("reverse_map")>>
      [] f = "memory_stats" ->
            <<ReadLock("interner"), ReadLock("reverse_map"),
              Unlock("reverse_map"), Unlock("interner")>>

Idle == [f |-> None, at |-> 0]

InitLocks ==
    /\ lpc = [t \in LockThreads |-> Idle]
    /\ holders = [l \in Locks |-> {}]

\* the step the thread stands before
NextStep(t) == LockProgram(lpc[t].f)[lpc[t].at]

\* the lock can be taken in the mode: a Mutex by one thread, an RwLock by
\* one writer or by readers
Available(l, mode) ==
    \/ holders[l] = {}
    \/ mode = "read" /\ \A h \in holders[l] : h.mode = "read"

\* after a step: the next one, or the return of the function
Advance(t) ==
    lpc' = [lpc EXCEPT ![t] =
               IF lpc[t].at = Len(LockProgram(lpc[t].f)) THEN Idle
               ELSE [f |-> lpc[t].f, at |-> lpc[t].at + 1]]

\* a thread enters a function
LockCall(t, f) ==
    /\ lpc[t] = Idle
    /\ lpc' = [lpc EXCEPT ![t] = [f |-> f, at |-> 1]]
    /\ UNCHANGED <<holders, nonLockVars>>

\* lock(), read(), write(): the thread goes on when the lock is available
LockAcquire(t) ==
    /\ lpc[t] # Idle
    /\ NextStep(t).step = "acquire"
    /\ Available(NextStep(t).lock, NextStep(t).mode)
    /\ holders' = [holders EXCEPT ![NextStep(t).lock] =
                       @ \cup {[thread |-> t, mode |-> NextStep(t).mode]}]
    /\ Advance(t)
    /\ UNCHANGED nonLockVars

\* a guard goes out of scope
LockRelease(t) ==
    /\ lpc[t] # Idle
    /\ NextStep(t).step = "release"
    /\ holders' = [holders EXCEPT ![NextStep(t).lock] =
                       {h \in @ : h.thread # t}]
    /\ Advance(t)
    /\ UNCHANGED nonLockVars

NextLocks ==
    \/ \E t \in LockThreads, f \in LockedFunctions : LockCall(t, f)
    \/ \E t \in LockThreads : LockAcquire(t)
    \/ \E t \in LockThreads : LockRelease(t)

(***************************************************************************)
(* Lock acquisitions: properties                                           *)
(***************************************************************************)
\* the thread stands before a lock it cannot take
Waiting(t) ==
    /\ lpc[t] # Idle
    /\ NextStep(t).step = "acquire"
    /\ ~Available(NextStep(t).lock, NextStep(t).mode)

\* t waits for a lock that u holds
WaitsFor(t, u) ==
    Waiting(t) /\ \E h \in holders[NextStep(t).lock] : h.thread = u

\* the pairs of the relation, and its composition with itself
WaitPairs == {p \in LockThreads \X LockThreads : WaitsFor(p[1], p[2])}
Compose(R, S) ==
    {p \in LockThreads \X LockThreads :
        \E v \in LockThreads : <<p[1], v>> \in R /\ <<v, p[2]>> \in S}

\* a thread waits for itself along one, two or three waits
WaitCycle ==
    \E t \in LockThreads :
        <<t, t>> \in WaitPairs \cup Compose(WaitPairs, WaitPairs)
                       \cup Compose(WaitPairs, Compose(WaitPairs, WaitPairs))

\* C40: no interleaving deadlocks: the threads never wait for one another
\* in a cycle, and whenever a thread is inside a function some thread can
\* take its next step
C40_NoWaitCycle ==
    /\ ~WaitCycle
    /\ (\E t \in LockThreads : lpc[t] # Idle) =>
           \E t \in LockThreads : lpc[t] # Idle /\ ~Waiting(t)

\* one thread holds the session map and a session's receiver, a second waits
\* for the session map, and a third holds watchers and watched_paths
C40_Witness ==
    \E t, u, v \in LockThreads :
        /\ [thread |-> t, mode |-> "write"] \in holders["sessions"]
        /\ [thread |-> t, mode |-> "write"] \in holders["output_receiver"]
        /\ WaitsFor(u, t)
        /\ [thread |-> v, mode |-> "write"] \in holders["watchers"]
        /\ [thread |-> v, mode |-> "write"] \in holders["watched_paths"]

(***************************************************************************)
(* Specifications                                                          *)
(***************************************************************************)
Init ==
    InitPty /\ InitState /\ InitChat /\ InitWatcher /\ InitIntern /\ InitFiles
    /\ InitScan /\ InitSearch /\ InitApp /\ InitCacheScan /\ InitLocks

Next ==
    NextPty \/ NextState \/ NextChat \/ NextWatcher \/ NextIntern \/ NextFiles
    \/ NextScan \/ NextSearch \/ NextApp \/ NextCacheScan \/ NextLocks

Spec == Init /\ [][Next]_vars

\* the PTY multiplexer alone
SpecPty == Init /\ [][NextPty]_vars

\* what the scheduling gives the PTY multiplexer: the reader threads are OS
\* threads, so a read that has EOF to return does return, and a command in
\* progress goes on; neither the shells nor the UI owe another step
PtyFairness ==
    /\ \A s \in SessionIds : WF_vars(ReaderEof(s))
    /\ \A t \in Threads :
          /\ WF_vars(CreateStore(t))
          /\ WF_vars(\E ts \in 0..MaxTime, e \in BOOLEAN : ReadPoll(t, ts, e))

SpecPtyFair == Init /\ [][NextPty]_vars /\ PtyFairness

\* the state kernel alone
SpecState == Init /\ [][NextState]_vars

\* the chat commands alone
SpecChat == Init /\ [][NextChat]_vars

\* the file-system watcher alone
SpecWatcher == Init /\ [][NextWatcher]_vars

\* the path interner alone
SpecIntern == Init /\ [][NextIntern]_vars

\* the file commands alone
SpecFiles == Init /\ [][NextFiles]_vars

\* the chunked scan alone
SpecScan == Init /\ [][NextScan]_vars

\* the project search alone
SpecSearch == Init /\ [][NextSearch]_vars

\* the application state alone
SpecApp == Init /\ [][NextApp]_vars

\* the scan that populates the known-files cache alone
SpecCacheScan == Init /\ [][NextCacheScan]_vars

\* the lock acquisitions alone
SpecLocks == Init /\ [][NextLocks]_vars

=============================================================================
